---- MODULE Spec2Model ----
(***************************************************************************)
(* A model of newline_iwb_converter/iwb2svg.py: the extraction of the      *)
(* pages of an IWB archive into SVG files and the normalization pipeline   *)
(* that runs over each page.                                               *)
(*                                                                         *)
(* Strings are TLA+ strings, taken apart with Len, SubSeq and \o.  An XML  *)
(* tree lives in a heap of element records (an element is its index in the *)
(* heap), so that two parents holding the same element share it, as two    *)
(* Python references do.  Attributes are sequences of <<name, value>>      *)
(* pairs in insertion order, as in a Python dict.                          *)
(*                                                                         *)
(* Numbers are Python floats in the source and integers here.  Every       *)
(* numeric string of the model's inputs is integral (the digits after its  *)
(* point, if any, are zeros) and none uses an exponent, "inf", "nan" or    *)
(* "_", so float() is exact on them and str() of a float ends in ".0".     *)
(***************************************************************************)
EXTENDS Integers, Sequences, FiniteSets, TLC

(***************************************************************************)
(* Python str and re primitives                                            *)
(***************************************************************************)
Char(s, i) == SubSeq(s, i, i)

Slice(s, i, j) == IF i > j THEN "" ELSE SubSeq(s, i, j)

From(s, i) == Slice(s, i, Len(s))

startswith(s, p) == Len(p) <= Len(s) /\ SubSeq(s, 1, Len(p)) = p

endswith(s, p) == Len(p) <= Len(s) /\ SubSeq(s, Len(s) - Len(p) + 1, Len(s)) = p

StartsAt(s, p, i) == i + Len(p) - 1 <= Len(s) /\ SubSeq(s, i, i + Len(p) - 1) = p

\* the decimal digits: what \d of re matches and what float() reads as a
\* digit, of the characters up to U+00FF
Digits == {"0", "1", "2", "3", "4", "5", "6", "7", "8", "9"}

\* the whitespace float() strips: the ASCII whitespace and, of the characters
\* up to U+00FF, the Unicode spaces above U+007F (U+0085, U+00A0); between
\* the quotes are the characters themselves, U+000B, U+0085 and U+00A0
FloatSpace == {" ", "\t", "\n", "\r", "\f", "", "", " "}

\* the characters str.isspace() holds for, which str.strip(), str.split() and
\* \s of re take as whitespace: those of float() and U+001C to U+001F.  The
\* Unicode spaces above U+00FF cannot be written in a string of this module
\* and are in no input.
Whitespace == FloatSpace \cup {"", "", "", ""}

DigitVal(c) ==
    CASE c = "0" -> 0 [] c = "1" -> 1 [] c = "2" -> 2 [] c = "3" -> 3
      [] c = "4" -> 4 [] c = "5" -> 5 [] c = "6" -> 6 [] c = "7" -> 7
      [] c = "8" -> 8 [] c = "9" -> 9

DigitChar(d) == Char("0123456789", d + 1)

\* str.isdigit(): non-empty and every character a digit.  Of the characters
\* up to U+00FF these are the decimal digits and the superscripts U+00B2,
\* U+00B3 and U+00B9, which are between the quotes; the digits above U+00FF
\* cannot be written in a string of this module and are in no input.
isdigit(s) ==
    Len(s) > 0 /\ \A i \in 1..Len(s) : Char(s, i) \in Digits \cup {"²", "³", "¹"}

\* the least and the greatest member of a set of positions, 0 for the empty set
Least(S) == IF S = {} THEN 0 ELSE CHOOSE j \in S : \A k \in S : j <= k

Greatest(S) == IF S = {} THEN 0 ELSE CHOOSE j \in S : \A k \in S : k <= j

\* s.find(sub) from position i on: the first index at or after i, or 0
FindFrom(s, sub, i) == Least({j \in i..(Len(s) - Len(sub) + 1) : StartsAt(s, sub, j)})

contains(s, sub) == FindFrom(s, sub, 1) # 0

\* the index of the last occurrence of the character c in s, 0 when there is none
rfind(s, c) == Greatest({j \in 1..Len(s) : Char(s, j) = c})

\* s.replace(old, new): every non-overlapping occurrence, left to right
RECURSIVE replace(_, _, _)
replace(s, old, new) ==
    LET i == FindFrom(s, old, 1)
    IN IF i = 0 THEN s
       ELSE Slice(s, 1, i - 1) \o new \o replace(From(s, i + Len(old)), old, new)

\* s without the characters of W at its two ends
Strip(s, W) ==
    LET t == From(s, Least({j \in 1..(Len(s) + 1) : j > Len(s) \/ Char(s, j) \notin W}))
    IN Slice(t, 1, Greatest({j \in 1..Len(t) : Char(t, j) \notin W}))

\* s.strip()
strip(s) == Strip(s, Whitespace)

\* s.split(sep): the pieces between the separators, empty pieces kept
RECURSIVE split(_, _)
split(s, sep) ==
    LET i == FindFrom(s, sep, 1)
    IN IF i = 0 THEN <<s>>
       ELSE <<Slice(s, 1, i - 1)>> \o split(From(s, i + Len(sep)), sep)

\* s.split(sep, 1)
split1(s, sep) ==
    LET i == FindFrom(s, sep, 1)
    IN IF i = 0 THEN <<s>> ELSE <<Slice(s, 1, i - 1), From(s, i + Len(sep))>>

\* s.split(): the maximal runs of non-whitespace
RECURSIVE splitws(_)
splitws(s) ==
    LET t == strip(s)
        \* the index of the last character of the first word of t
        end == Least({j \in 1..(Len(t) + 1) : j > Len(t) \/ Char(t, j) \in Whitespace}) - 1
    IN IF t = "" THEN <<>>
       ELSE <<Slice(t, 1, end)>> \o splitws(From(t, end + 1))

\* sep.join(parts)
RECURSIVE join(_, _)
join(sep, parts) ==
    IF parts = <<>> THEN ""
    ELSE IF Len(parts) = 1 THEN parts[1]
    ELSE parts[1] \o sep \o join(sep, Tail(parts))

\* the index after the digits that start at i (i itself when there is none)
SkipDigits(s, i) ==
    IF i > Len(s) THEN i
    ELSE Least({j \in i..(Len(s) + 1) : j > Len(s) \/ Char(s, j) \notin Digits})

\* the index after the whitespace that starts at i (i itself when there is none)
SkipSpace(s, i) ==
    IF i > Len(s) THEN i
    ELSE Least({j \in i..(Len(s) + 1) : j > Len(s) \/ Char(s, j) \notin Whitespace})

\* the value of a digit string, 0 for the empty one
RECURSIVE DigitsVal(_)
DigitsVal(s) ==
    IF s = "" THEN 0
    ELSE 10 * DigitsVal(Slice(s, 1, Len(s) - 1)) + DigitVal(Char(s, Len(s)))

RECURSIVE NatStr(_)
NatStr(n) == IF n < 10 THEN DigitChar(n) ELSE NatStr(n \div 10) \o DigitChar(n % 10)

(***************************************************************************)
(* float(s) and str(f)                                                     *)
(***************************************************************************)
\* the unsigned part of a float literal: digits, "." and digits, one digit at least
PartsOk(ip, fp) ==
    /\ \A i \in 1..Len(ip) : Char(ip, i) \in Digits
    /\ \A i \in 1..Len(fp) : Char(fp, i) \in Digits
    /\ ip # "" \/ fp # ""

UnsignedOk(u) ==
    LET p == FindFrom(u, ".", 1)
    IN IF p = 0 THEN PartsOk(u, "") ELSE PartsOk(Slice(u, 1, p - 1), From(u, p + 1))

\* the value of an integral literal: that of the digits before the point
UnsignedVal(u) ==
    LET p == FindFrom(u, ".", 1)
    IN IF p = 0 THEN DigitsVal(u) ELSE DigitsVal(Slice(u, 1, p - 1))

\* a float literal without whitespace around it: a sign, or none, and the
\* unsigned part
StrippedOk(t) ==
    LET signed == Len(t) > 0 /\ Char(t, 1) \in {"+", "-"}
    IN UnsignedOk(IF signed THEN Tail(t) ELSE t)

StrippedVal(t) ==
    LET signed == Len(t) > 0 /\ Char(t, 1) \in {"+", "-"}
    IN IF signed
       THEN (IF Char(t, 1) = "-" THEN -1 ELSE 1) * UnsignedVal(Tail(t))
       ELSE UnsignedVal(t)

\* float(s) returns (TRUE) or raises ValueError (FALSE)
FloatOk(s) == StrippedOk(Strip(s, FloatSpace))

\* float(s), for s with FloatOk(s)
FloatVal(s) == StrippedVal(Strip(s, FloatSpace))

\* str(f) of an integral float: always with a point, "220.0", "-2.0"
FloatStr(v) == IF v < 0 THEN "-" \o NatStr(-v) \o ".0" ELSE NatStr(v) \o ".0"

(***************************************************************************)
(* xml.etree.ElementTree: elements, attributes, trees                      *)
(***************************************************************************)
SVG_NS == "http://www.w3.org/2000/svg"

XLINK_NS == "http://www.w3.org/1999/xlink"

IWB_NS == "http://www.imsglobal.org/xsd/iwb_v1p0"

\* the tag of local name n in namespace ns, as ElementTree writes it
QName(ns, n) == "{" \o ns \o "}" \o n

Svg(n) == QName(SVG_NS, n)

XlinkHref == QName(XLINK_NS, "href")

\* tag.split("}")[-1]
LocalName(tag) == From(tag, rfind(tag, "}") + 1)

\* attrib: <<name, value>> pairs in insertion order
RECURSIVE AttrIndex(_, _)
AttrIndex(attrib, k) ==
    IF attrib = <<>> THEN 0
    ELSE IF attrib[Len(attrib)][1] = k THEN Len(attrib)
    ELSE AttrIndex(SubSeq(attrib, 1, Len(attrib) - 1), k)

Has(attrib, k) == AttrIndex(attrib, k) # 0

\* attrib.get(k, d)
Get(attrib, k, d) == IF Has(attrib, k) THEN attrib[AttrIndex(attrib, k)][2] ELSE d

\* attrib[k] = v: in place when k is there, appended when not
Set(attrib, k, v) ==
    IF Has(attrib, k)
    THEN [attrib EXCEPT ![AttrIndex(attrib, k)] = <<k, v>>]
    ELSE Append(attrib, <<k, v>>)

\* elem.set(k, v) on element e of heap h
SetAttr(h, e, k, v) == [h EXCEPT ![e].attrib = Set(@, k, v)]

\* root.iter(): the element and its descendants in document order
RECURSIVE iter(_, _), IterAll(_, _)
iter(h, e) == <<e>> \o IterAll(h, h[e].children)
IterAll(h, es) == IF es = <<>> THEN <<>> ELSE iter(h, Head(es)) \o IterAll(h, Tail(es))

Range(f) == {f[i] : i \in DOMAIN f}

\* the first parent of e below root in document order, 0 when there is none
RECURSIVE FirstParent(_, _, _)
FirstParent(h, order, e) ==
    IF order = <<>> THEN 0
    ELSE IF e \in Range(h[Head(order)].children) THEN Head(order)
    ELSE FirstParent(h, Tail(order), e)

\* list.index(x)
RECURSIVE IndexOf(_, _)
IndexOf(seq, x) ==
    IF seq = <<>> THEN 0
    ELSE IF Head(seq) = x THEN 1
    ELSE LET r == IndexOf(Tail(seq), x) IN IF r = 0 THEN 0 ELSE r + 1

\* a tree written as a value, its children nested in kids
Node(tag, attrib, kids) ==
    [tag |-> tag, attrib |-> attrib, text |-> "", tail |-> "", kids |-> kids]

TextNode(tag, attrib, text, tail, kids) ==
    [tag |-> tag, attrib |-> attrib, text |-> text, tail |-> tail, kids |-> kids]

\* ET.fromstring: the tree laid out in the heap in document order, so that
\* an element is its index and its children are the indices of its subtrees
RECURSIVE Size(_), SizeAll(_), Layout(_, _), LayoutKids(_, _), KidIds(_, _)
Size(node) == 1 + SizeAll(node.kids)
SizeAll(kids) == IF kids = <<>> THEN 0 ELSE Size(Head(kids)) + SizeAll(Tail(kids))
KidIds(kids, next) ==
    IF kids = <<>> THEN <<>>
    ELSE <<next>> \o KidIds(Tail(kids), next + Size(Head(kids)))
Layout(node, id) ==
    <<[tag |-> node.tag, attrib |-> node.attrib, text |-> node.text,
       tail |-> node.tail, children |-> KidIds(node.kids, id + 1)]>>
    \o LayoutKids(node.kids, id + 1)
LayoutKids(kids, next) ==
    IF kids = <<>> THEN <<>>
    ELSE Layout(Head(kids), next) \o LayoutKids(Tail(kids), next + Size(Head(kids)))
AllocTree(h, node) == [h |-> h \o Layout(node, Len(h) + 1), id |-> Len(h) + 1]

\* ElementTree.write: the tree below e as a value
RECURSIVE Serialize(_, _), SerializeAll(_, _)
Serialize(h, e) ==
    [tag |-> h[e].tag, attrib |-> h[e].attrib, text |-> h[e].text,
     tail |-> h[e].tail, kids |-> SerializeAll(h, h[e].children)]
SerializeAll(h, es) ==
    IF es = <<>> THEN <<>> ELSE <<Serialize(h, Head(es))>> \o SerializeAll(h, Tail(es))

(***************************************************************************)
(* parse_transform_translate                                               *)
(***************************************************************************)
\* [+-]?\d+\.?\d* at position i: the index after the match, 0 when none.
\* The match is greedy; a shorter one is followed by a digit or a point,
\* which no later part of either pattern accepts, so backtracking adds nothing.
\* \d+\.?\d* from j on, the digits ending before k
FractionEnd(s, j, k) ==
    IF k = j THEN 0
    ELSE IF k <= Len(s) /\ Char(s, k) = "." THEN SkipDigits(s, k + 1) ELSE k

DigitsEnd(s, j) == FractionEnd(s, j, SkipDigits(s, j))

NumberEnd(s, i) ==
    DigitsEnd(s, IF i <= Len(s) /\ Char(s, i) \in {"+", "-"} THEN i + 1 ELSE i)

\* \s*[,\s]\s* at position i: the index after the match, 0 when none
CommaEnd(s, i, a) ==
    IF a <= Len(s) /\ Char(s, a) = "," THEN SkipSpace(s, a + 1)
    ELSE IF a > i THEN a ELSE 0

SeparatorEnd(s, i) == CommaEnd(s, i, SkipSpace(s, i))

\* the pattern at position i, part by part: <<group 1, group 2>>, <<>> when
\* it does not match.  a: the parenthesis; b, c: the first number; d, e: the second
TranslateAt(s, i) ==
    LET a == SkipSpace(s, i + 9)
        b == SkipSpace(s, a + 1)
        c == NumberEnd(s, b)
        d == IF c = 0 THEN 0 ELSE SeparatorEnd(s, c)
        e == IF d = 0 THEN 0 ELSE NumberEnd(s, d)
    IN IF ~StartsAt(s, "translate", i) \/ ~StartsAt(s, "(", a) \/ e = 0
          \/ ~StartsAt(s, ")", SkipSpace(s, e))
       THEN <<>>
       ELSE <<Slice(s, b, c - 1), Slice(s, d, e - 1)>>

\* re.search: the leftmost position where the pattern matches
RECURSIVE TranslateSearch(_, _)
TranslateSearch(s, i) ==
    IF i > Len(s) THEN <<>>
    ELSE IF TranslateAt(s, i) # <<>> THEN TranslateAt(s, i)
    ELSE TranslateSearch(s, i + 1)

\* (tx, ty) of a transform attribute: float(match.group(1)), float(match.group(2)),
\* and (0, 0) when there is no transform or no translate(x, y) in it
parse_transform_translate(transform_str) ==
    IF transform_str = "" THEN <<0, 0>>
    ELSE LET m == TranslateSearch(transform_str, 1)
         IN IF m = <<>> THEN <<0, 0>> ELSE <<FloatVal(m[1]), FloatVal(m[2])>>

\* re.findall(r"-?\d+\.?\d*", d_str)
RECURSIVE FindNumbers(_, _)
FindNumbers(s, i) ==
    IF i > Len(s) THEN <<>>
    ELSE LET e == DigitsEnd(s, IF Char(s, i) = "-" THEN i + 1 ELSE i)
         IN IF e = 0 THEN FindNumbers(s, i + 1)
            ELSE <<Slice(s, i, e - 1)>> \o FindNumbers(s, e)

Max(a, b) == IF b > a THEN b ELSE a

(***************************************************************************)
(* fix_svg_size                                                            *)
(***************************************************************************)
\* the default of fix_svg_size's margin parameter
DefaultMargin == 100

\* width_str and width_str.replace(".", "").isdigit()
LooksNumeric(dim_str) == dim_str # "" /\ isdigit(replace(dim_str, ".", ""))

\* float(elem.get(k, 0)) returns
NumOk(attrib, k) == ~Has(attrib, k) \/ FloatOk(Get(attrib, k, ""))

\* float(elem.get(k, 0))
Num(attrib, k) == IF Has(attrib, k) THEN FloatVal(Get(attrib, k, "")) ELSE 0

\* rect, image, circle and ellipse: the maxima m = <<max_x, max_y>> after the
\* element; a ValueError in any of the floats leaves them as they were
BoxExtent(attrib, t, kx, ky, kw, kh, m) ==
    IF NumOk(attrib, kx) /\ NumOk(attrib, ky) /\ NumOk(attrib, kw) /\ NumOk(attrib, kh)
    THEN <<Max(m[1], Num(attrib, kx) + t[1] + Num(attrib, kw)),
           Max(m[2], Num(attrib, ky) + t[2] + Num(attrib, kh))>>
    ELSE m

\* polygon, polyline and path: the loop over the pairs of tokens, the maxima
\* updated pair by pair until the tokens run out or a float raises
RECURSIVE PairsExtent(_, _, _)
PairsExtent(tokens, t, m) ==
    IF Len(tokens) < 2 THEN m
    ELSE IF ~FloatOk(tokens[1]) \/ ~FloatOk(tokens[2]) THEN m
    ELSE PairsExtent(Tail(Tail(tokens)), t,
                     <<Max(m[1], FloatVal(tokens[1]) + t[1]),
                       Max(m[2], FloatVal(tokens[2]) + t[2])>>)

\* points_str.replace(",", " ").split()
PointTokens(points_str) == splitws(replace(points_str, ",", " "))

\* one round of the loop over svg_root.iter(): the maxima after element el
ElemExtent(el, m) ==
    LET local == LocalName(el.tag)
        t == parse_transform_translate(Get(el.attrib, "transform", ""))
    IN CASE local = "rect" -> BoxExtent(el.attrib, t, "x", "y", "width", "height", m)
         [] local = "circle" -> BoxExtent(el.attrib, t, "cx", "cy", "r", "r", m)
         [] local = "ellipse" -> BoxExtent(el.attrib, t, "cx", "cy", "rx", "ry", m)
         [] local \in {"polyline", "polygon"} ->
                PairsExtent(PointTokens(Get(el.attrib, "points", "")), t, m)
         [] local = "image" -> BoxExtent(el.attrib, t, "x", "y", "width", "height", m)
         [] local = "path" -> PairsExtent(FindNumbers(Get(el.attrib, "d", ""), 1), t, m)
         [] OTHER -> m

\* the maxima after the elements of order, from m on
RECURSIVE Extent(_, _, _)
Extent(h, order, m) ==
    IF order = <<>> THEN m
    ELSE Extent(h, Tail(order), ElemExtent(h[Head(order)], m))

\* <<max_x, max_y>> of the whole tree, from (0, 0)
ContentExtent(h, root) == Extent(h, iter(h, root), <<0, 0>>)

\* a float() of a declared dimension raises: the outer except prints a warning
DimensionRaises(width_str, height_str) ==
    \/ LooksNumeric(width_str) /\ ~FloatOk(width_str)
    \/ LooksNumeric(height_str) /\ ~FloatOk(height_str)

\* both dimensions parsed to a float (neither is None, no float() raised)
DimensionsParsed(width_str, height_str) ==
    /\ LooksNumeric(width_str) /\ FloatOk(width_str)
    /\ LooksNumeric(height_str) /\ FloatOk(height_str)

\* NewSize without the max against the declared dimension
NewSizeNoFloor(width, height, max_x, max_y, margin) ==
    IF max_x > width \/ max_y > height
    THEN <<max_x + margin, max_y + margin>>
    ELSE <<>>

\* NewSize resizing only when both extents overflow
NewSizeBoth(width, height, max_x, max_y, margin) ==
    IF max_x > width /\ max_y > height
    THEN <<IF max_x + margin > width THEN max_x + margin ELSE width,
           IF max_y + margin > height THEN max_y + margin ELSE height>>
    ELSE <<>>

\* lines 289-291: <<new_width, new_height>>, <<>> when the content fits
NewSize(width, height, max_x, max_y, margin) ==
    IF max_x > width \/ max_y > height
    THEN <<Max(width, max_x + margin), Max(height, max_y + margin)>>
    ELSE <<>>

\* lines 292-293: both attributes overwritten, unless the content fits
Resized(h, root, new) ==
    IF new = <<>> THEN h
    ELSE SetAttr(SetAttr(h, root, "width", FloatStr(new[1])), root, "height", FloatStr(new[2]))

\* fix_svg_size taking a dimension it cannot parse as 0
DimOrZero(dim_str) == IF LooksNumeric(dim_str) /\ FloatOk(dim_str) THEN FloatVal(dim_str) ELSE 0

FromZero(h, root, margin, m) ==
    Resized(h, root, NewSize(DimOrZero(Get(h[root].attrib, "width", "100%")),
                             DimOrZero(Get(h[root].attrib, "height", "100%")),
                             m[1], m[2], margin))

FixSvgSizeFromZero(h, root, margin) == FromZero(h, root, margin, ContentExtent(h, root))

\* the heap after fix_svg_size(svg_root, margin)
fix_svg_size(h, root, margin) ==
    LET width_str == Get(h[root].attrib, "width", "100%")
        height_str == Get(h[root].attrib, "height", "100%")
    IN IF ~DimensionsParsed(width_str, height_str) THEN h
       ELSE LET m == ContentExtent(h, root)
            IN Resized(h, root, NewSize(FloatVal(width_str), FloatVal(height_str),
                                        m[1], m[2], margin))

\* what fix_svg_size prints to stderr: the warning of line 297 with the text
\* of the ValueError of the first float() that raises, the width's before the
\* height's.  The string float() is given holds digits and points only, so
\* its repr is the string between single quotes.
fix_svg_size_warnings(h, root) ==
    LET width_str == Get(h[root].attrib, "width", "100%")
        height_str == Get(h[root].attrib, "height", "100%")
        raising == IF LooksNumeric(width_str) /\ ~FloatOk(width_str)
                   THEN width_str ELSE height_str
    IN IF DimensionRaises(width_str, height_str)
       THEN <<"Warning: Could not fix SVG size: could not convert string to float: '"
              \o raising \o "'">>
       ELSE <<>>

(***************************************************************************)
(* zipfile.ZipFile: the archive is the sequence of its entries.  An entry   *)
(* that holds a well-formed XML document is given by the tree its bytes     *)
(* parse to (DocEntry); any other entry is given by its bytes (Entry), and  *)
(* bytes that are read as a document are not well-formed.                   *)
(***************************************************************************)
NoTree == Node("", <<>>, <<>>)

Entry(name, data) == [name |-> name, data |-> data, tree |-> NoTree]

DocEntry(name, tree) == [name |-> name, data |-> <<>>, tree |-> tree]

\* the text of the ParseError that ET.fromstring(data) raises, for data of
\* tabs, line feeds, spaces, "<", ASCII letters and digits only, none of which
\* is well-formed; it is not defined for other bytes.  The error is where
\* expat stops: at the end of data that is all whitespace, at a word before
\* the root element, at a "<" that runs into a word, and in a start tag at
\* the first byte that cannot go on with it, or at its "<" when the data end
\* inside the tag.
ParseError(data) ==
    LET n == Len(data)
        space == {9, 10, 32}
        letter(b) == b \in 65..90 \/ b \in 97..122
        alnum(b) == letter(b) \/ b \in 48..57
        \* the line, from 1, and the column, from 0, of the byte at index q
        at(q) ==
            "line " \o NatStr(1 + Cardinality({i \in 1..(q - 1) : data[i] = 10}))
            \o ", column " \o NatStr(q - 1 - Greatest({i \in 1..(q - 1) : data[i] = 10}))
        \* the first byte that is no whitespace, n + 1 when there is none
        p == Least({j \in 1..(n + 1) : j > n \/ data[j] \notin space})
        word_end == Least({j \in p..(n + 1) : j > n \/ ~alnum(data[j])})
        \* the index of the byte the start tag cannot go on with, from q on,
        \* 0 when the data end first; part is what q is in: the name of the
        \* tag, the whitespace after it, the name of an attribute, or the
        \* whitespace before its "="
        RECURSIVE scan(_, _)
        scan(q, part) ==
            IF q > n THEN 0
            ELSE CASE part \in {"name", "attr"} /\ alnum(data[q]) -> scan(q + 1, part)
                   [] part = "name" /\ data[q] \in space -> scan(q + 1, "between")
                   [] part = "attr" /\ data[q] \in space -> scan(q + 1, "eq")
                   [] part = "between" /\ data[q] \in space -> scan(q + 1, "between")
                   [] part = "between" /\ letter(data[q]) -> scan(q + 1, "attr")
                   [] part = "eq" /\ data[q] \in space -> scan(q + 1, "eq")
                   [] OTHER -> q
    IN CASE \A i \in 1..n : data[i] \in space \cup {60} \/ alnum(data[i]) ->
            IF p > n THEN "no element found: " \o at(n + 1)
            ELSE IF data[p] # 60
            THEN IF word_end <= n /\ data[word_end] = 60
                 THEN "not well-formed (invalid token): " \o at(word_end)
                 ELSE "syntax error: " \o at(p)
            ELSE IF p = n THEN "unclosed token: " \o at(p)
            ELSE IF ~letter(data[p + 1]) THEN "not well-formed (invalid token): " \o at(p + 1)
            ELSE IF scan(p + 2, "name") = 0 THEN "unclosed token: " \o at(p)
            ELSE "not well-formed (invalid token): " \o at(scan(p + 2, "name"))

\* z.namelist()
namelist(z) == [i \in 1..Len(z) |-> z[i].name]

\* z.getinfo(name) returns; it raises KeyError otherwise
InArchive(z, name) == \E i \in 1..Len(z) : z[i].name = name

\* z.read(name), for a name in the archive: of the entries of that name, the
\* last (NameToInfo keeps the last)
ReadEntry(z, name) == z[Greatest({i \in 1..Len(z) : z[i].name = name})].data

(***************************************************************************)
(* base64.b64encode, str.lower, Path.suffix                                *)
(***************************************************************************)
B64Alphabet == "ABCDEFGHIJKLMNOPQRSTUVWXYZabcdefghijklmnopqrstuvwxyz0123456789+/"

B64Char(n) == Char(B64Alphabet, n + 1)

RECURSIVE b64encode(_)
b64encode(bytes) ==
    IF Len(bytes) = 0 THEN ""
    ELSE IF Len(bytes) = 1
    THEN B64Char(bytes[1] \div 4) \o B64Char((bytes[1] % 4) * 16) \o "=="
    ELSE IF Len(bytes) = 2
    THEN B64Char(bytes[1] \div 4) \o B64Char((bytes[1] % 4) * 16 + bytes[2] \div 16)
           \o B64Char((bytes[2] % 16) * 4) \o "="
    ELSE B64Char(bytes[1] \div 4) \o B64Char((bytes[1] % 4) * 16 + bytes[2] \div 16)
           \o B64Char((bytes[2] % 16) * 4 + bytes[3] \div 64) \o B64Char(bytes[3] % 64)
           \o b64encode(SubSeq(bytes, 4, Len(bytes)))

\* the lower-case letter of an upper-case letter, c itself for any other
\* character: the upper-case letters up to U+00FF are those of ASCII and
\* U+00C0 to U+00DE without U+00D7
LowerChar(c) ==
    LET i == FindFrom("ABCDEFGHIJKLMNOPQRSTUVWXYZÀÁÂÃÄÅÆÇÈÉÊËÌÍÎÏÐÑÒÓÔÕÖØÙÚÛÜÝÞ", c, 1)
    IN IF i = 0 THEN c
       ELSE Char("abcdefghijklmnopqrstuvwxyzàáâãäåæçèéêëìíîïðñòóôõöøùúûüýþ", i)

\* s.lower(), character by character, the halves of s one after the other
RECURSIVE lower(_)
lower(s) ==
    IF s = "" THEN ""
    ELSE IF Len(s) = 1 THEN LowerChar(s)
    ELSE lower(Slice(s, 1, Len(s) \div 2)) \o lower(From(s, Len(s) \div 2 + 1))

\* the components of a relative POSIX path, as pathlib parses it: the pieces
\* between the slashes, without the empty ones and the "." ones
Components(p) == SelectSeq(split(p, "/"), LAMBDA c : c \notin {"", "."})

\* Path(p).suffix: from the last point of the last component, unless the
\* point starts or ends the component
suffix(p) ==
    LET parts == Components(p)
        name == IF parts = <<>> THEN "" ELSE parts[Len(parts)]
        i == rfind(name, ".")
    IN IF i <= 1 \/ i = Len(name) THEN "" ELSE From(name, i)

(***************************************************************************)
(* the image functions                                                     *)
(***************************************************************************)
\* the elements of order tagged svg:image, in order
RECURSIVE ImagesIn(_, _)
ImagesIn(h, order) ==
    IF order = <<>> THEN <<>>
    ELSE (IF h[Head(order)].tag = Svg("image") THEN <<Head(order)>> ELSE <<>>)
         \o ImagesIn(h, Tail(order))

\* svg_root.findall(".//svg:image", {"svg": SVG_NS}): the descendants, in document order
Images(h, root) == ImagesIn(h, Tail(iter(h, root)))

\* the marker put before the whole href
CompressedHrefPrefixed(href) == "compressed_" \o href

\* href.replace("images/", "images/compressed_")
CompressedHref(href) == replace(href, "images/", "images/compressed_")

\* the href fix_compressed_unexistent_images leaves on an image whose href is href
RepairedHref(href, z) ==
    IF href # "" /\ startswith(href, "images/") /\ endswith(href, ".png")
       /\ ~InArchive(z, href) /\ InArchive(z, CompressedHref(href))
    THEN CompressedHref(href)
    ELSE href

RECURSIVE RepairAll(_, _, _)
RepairAll(h, imgs, z) ==
    IF imgs = <<>> THEN h
    ELSE LET e == Head(imgs)
             h1 == IF Has(h[e].attrib, XlinkHref)
                   THEN SetAttr(h, e, XlinkHref, RepairedHref(Get(h[e].attrib, XlinkHref, ""), z))
                   ELSE h
         IN RepairAll(h1, Tail(imgs), z)

\* the heap after fix_compressed_unexistent_images(svg_root, zip_file)
fix_compressed_unexistent_images(h, root, z) == RepairAll(h, Images(h, root), z)

\* mime_types.get(ext, "application/octet-stream")
MimeType(ext) ==
    CASE ext = ".png" -> "image/png"
      [] ext = ".jpg" -> "image/jpeg"
      [] ext = ".jpeg" -> "image/jpeg"
      [] ext = ".gif" -> "image/gif"
      [] ext = ".svg" -> "image/svg+xml"
      [] OTHER -> "application/octet-stream"

\* f"data:{mime_type};base64,{b64_data}" of the entry named href
DataUri(href, z) ==
    "data:" \o MimeType(lower(suffix(href))) \o ";base64," \o b64encode(ReadEntry(z, href))

\* the image's href is one process_images_data_uri looks up in the archive
IsArchiveHref(attrib) ==
    Has(attrib, XlinkHref) /\ startswith(Get(attrib, XlinkHref, ""), "images/")

\* the href process_images_data_uri leaves on an image whose href is href
InlinedHref(href, z) == IF InArchive(z, href) THEN DataUri(href, z) ELSE href

RECURSIVE InlineAll(_, _, _)
InlineAll(h, imgs, z) ==
    IF imgs = <<>> THEN h
    ELSE LET e == Head(imgs)
             h1 == IF IsArchiveHref(h[e].attrib)
                   THEN SetAttr(h, e, XlinkHref, InlinedHref(Get(h[e].attrib, XlinkHref, ""), z))
                   ELSE h
         IN InlineAll(h1, Tail(imgs), z)

\* the heap after process_images_data_uri(svg_root, zip_file)
process_images_data_uri(h, root, z) == InlineAll(h, Images(h, root), z)

\* what process_images_data_uri prints to stderr: one warning for each image
\* whose entry is missing (KeyError), in document order
RECURSIVE InlineWarnings(_, _, _)
InlineWarnings(h, imgs, z) ==
    IF imgs = <<>> THEN <<>>
    ELSE LET a == h[Head(imgs)].attrib
         IN (IF IsArchiveHref(a) /\ ~InArchive(z, Get(a, XlinkHref, ""))
             THEN <<"Warning: Image file not found in IWB: " \o Get(a, XlinkHref, "")>>
             ELSE <<>>)
            \o InlineWarnings(h, Tail(imgs), z)

process_images_data_uri_warnings(h, root, z) == InlineWarnings(h, Images(h, root), z)

\* a file of the output directory
SvgFile(tree) == [kind |-> "svg", tree |-> tree, data |-> <<>>]

DataFile(data) == [kind |-> "data", tree |-> NoTree, data |-> data]

\* the loop of process_images_copy_directory over names, names of z: every
\* entry under images/ is written to os.path.join(output_dir, name), until
\* os.makedirs or open raises.  files holds the files of the output
\* directory by their path below it, and a directory is there when a file is
\* below it; raised is the last line of the traceback, "" when nothing is
\* raised, with the output directory written <out> and the path as the code
\* wrote it, its empty and "." pieces kept.  A ".." in a name is taken as the
\* name of a directory, which it is not: no input has one.
RECURSIVE CopyEntries(_, _, _)
CopyEntries(files, z, names) ==
    IF names = <<>> THEN [files |-> files, raised |-> ""]
    ELSE IF ~startswith(Head(names), "images/") THEN CopyEntries(files, z, Tail(names))
    ELSE LET name == Head(names)
             pieces == split(name, "/")
             \* the name up to its piece n, as written, and the file it names
             written(n) == join("/", SubSeq(pieces, 1, n))
             path(n) == join("/", Components(written(n)))
             \* the name ends in a slash or in "/.": the target is a directory
             is_dir == pieces[Len(pieces)] \in {"", "."}
             \* os.path.dirname(target_path) ends with the last piece before
             \* the last one that is not empty
             dir_len == Greatest({n \in 1..(Len(pieces) - 1) : pieces[n] # ""})
             \* os.makedirs goes up to the first path that exists: the pieces
             \* of the directory that name a file
             blocked == {n \in 1..dir_len : pieces[n] # "" /\ path(n) \in DOMAIN files}
             \* the pieces below that file, which os.mkdir is called on
             below == {n \in (Least(blocked) + 1)..dir_len : pieces[n] # ""}
             holds_files == \E f \in DOMAIN files : startswith(f, path(Len(pieces)) \o "/")
         IN IF blocked # {}
            THEN [files |-> files,
                  raised |-> IF below = {}
                             THEN "FileExistsError: [Errno 17] File exists: '<out>/"
                                  \o written(Least(blocked)) \o "'"
                             ELSE "NotADirectoryError: [Errno 20] Not a directory: '<out>/"
                                  \o written(Least(below)) \o "'"]
            ELSE IF is_dir \/ holds_files
            THEN [files |-> files,
                  raised |-> "IsADirectoryError: [Errno 21] Is a directory: '<out>/"
                             \o name \o "'"]
            ELSE CopyEntries((path(Len(pieces)) :> DataFile(ReadEntry(z, name))) @@ files,
                             z, Tail(names))

\* the output directory after process_images_copy_directory(svg_root,
\* zip_file, output_dir), whether it returns or raises
process_images_copy_directory(files, z) == CopyEntries(files, z, namelist(z)).files

\* the last line of the traceback of process_images_copy_directory, <<>> when
\* it returns
process_images_copy_directory_traceback(files, z) ==
    IF CopyEntries(files, z, namelist(z)).raised = "" THEN <<>>
    ELSE <<CopyEntries(files, z, namelist(z)).raised>>

\* seq without its first occurrence of x: list.remove(x)
Remove(seq, x) ==
    LET i == IndexOf(seq, x)
    IN IF i = 0 THEN seq ELSE SubSeq(seq, 1, i - 1) \o SubSeq(seq, i + 1, Len(seq))

\* the heap after delete_background_images(svg_root): each image whose id
\* starts with "backgroundImage" leaves the first parent that holds it
RECURSIVE DeleteAll(_, _, _)
DeleteAll(h, root, imgs) ==
    IF imgs = <<>> THEN h
    ELSE LET e == Head(imgs)
             parent == FirstParent(h, iter(h, root), e)
             h1 == IF startswith(Get(h[e].attrib, "id", ""), "backgroundImage") /\ parent # 0
                   THEN [h EXCEPT ![parent].children = Remove(@, e)]
                   ELSE h
         IN DeleteAll(h1, root, Tail(imgs))

delete_background_images(h, root) == DeleteAll(h, root, Images(h, root))

(***************************************************************************)
(* remove_fills                                                            *)
(***************************************************************************)
shape_tags == {"path", "rect", "circle", "ellipse", "polygon", "polyline", "line", "text"}

\* IsExempt knowing the prefix "Autoshape" only
IsExemptAutoshape(attrib) == startswith(Get(attrib, "id", ""), "Autoshape")

\* the id marks the element as one remove_fills skips
IsExempt(attrib) ==
    \/ startswith(Get(attrib, "id", ""), "Autoshape")
    \/ startswith(Get(attrib, "id", ""), "Word")

\* [p for p in style.split(";") if p.strip()]
RECURSIVE NonBlank(_)
NonBlank(parts) ==
    IF parts = <<>> THEN <<>>
    ELSE (IF strip(Head(parts)) # "" THEN <<Head(parts)>> ELSE <<>>) \o NonBlank(Tail(parts))

\* out_parts: the declarations of parts, every fill declaration turned to fill:none
RECURSIVE OutParts(_)
OutParts(parts) ==
    IF parts = <<>> THEN <<>>
    ELSE LET p == Head(parts)
             kv == split1(p, ":")
         IN (IF ~contains(p, ":") THEN <<>>
             ELSE IF strip(kv[1]) = "fill" THEN <<"fill:none">>
             ELSE <<strip(kv[1]) \o ":" \o strip(kv[2])>>)
            \o OutParts(Tail(parts))

\* has_fill: some declaration of parts is a fill declaration
HasFillPart(parts) ==
    \E i \in 1..Len(parts) :
        contains(parts[i], ":") /\ strip(split1(parts[i], ":")[1]) = "fill"

\* StyleParts giving fill:none to every shape, whatever its style declares
StylePartsAlwaysAppend(style, local) ==
    OutParts(NonBlank(split(style, ";")))
    \o (IF local \in shape_tags THEN <<"fill:none">> ELSE <<>>)

\* StyleParts without the fill:none a shape with no fill declaration is given
StylePartsNoAppend(style, local) == OutParts(NonBlank(split(style, ";")))

\* the out_parts of a non-empty style on an element of local name local
StyleParts(style, local) ==
    LET parts == NonBlank(split(style, ";"))
    IN OutParts(parts)
       \o (IF ~HasFillPart(parts) /\ local \in shape_tags THEN <<"fill:none">> ELSE <<>>)

\* RemoveFill without its last statement, the fill attribute given to a shape
\* that has neither a fill attribute nor a style
RemoveFillNoFresh(tag, attrib) ==
    LET local == LocalName(tag)
        a1 == IF Has(attrib, "fill") THEN Set(attrib, "fill", "none") ELSE attrib
        style == Get(a1, "style", "")
    IN IF IsExempt(attrib) THEN attrib
       ELSE IF style # "" /\ StyleParts(style, local) # <<>>
       THEN Set(a1, "style", join(";", StyleParts(style, local)))
       ELSE a1

\* one round of the loop of remove_fills: the attributes of the element after it
RemoveFill(tag, attrib) ==
    LET local == LocalName(tag)
        a1 == IF Has(attrib, "fill") THEN Set(attrib, "fill", "none") ELSE attrib
        style == Get(a1, "style", "")
        a2 == IF style # "" /\ StyleParts(style, local) # <<>>
              THEN Set(a1, "style", join(";", StyleParts(style, local)))
              ELSE a1
    IN IF IsExempt(attrib) THEN attrib
       ELSE IF ~Has(a2, "fill") /\ Get(a2, "style", "") = "" /\ local \in shape_tags
       THEN Set(a2, "fill", "none")
       ELSE a2

\* RemoveFillAll passing over what lies below an exempt element
RECURSIVE RemoveFillAllSkipSubtree(_, _)
RemoveFillAllSkipSubtree(h, order) ==
    IF order = <<>> THEN h
    ELSE IF IsExempt(h[Head(order)].attrib)
    THEN RemoveFillAllSkipSubtree(h, SubSeq(order, Len(iter(h, Head(order))) + 1, Len(order)))
    ELSE RemoveFillAllSkipSubtree(
             [h EXCEPT ![Head(order)].attrib = RemoveFill(h[Head(order)].tag, @)], Tail(order))

RECURSIVE RemoveFillAll(_, _)
RemoveFillAll(h, order) ==
    IF order = <<>> THEN h
    ELSE RemoveFillAll([h EXCEPT ![Head(order)].attrib = RemoveFill(h[Head(order)].tag, @)],
                       Tail(order))

\* the heap after remove_fills(svg_root)
remove_fills(h, root) == RemoveFillAll(h, iter(h, root))

(***************************************************************************)
(* convert_textarea_to_text                                                *)
(***************************************************************************)
LineHeight == "1.2em"

\* the elements of order whose tag ends in "textarea", in order
RECURSIVE TextareasIn(_, _)
TextareasIn(h, order) ==
    IF order = <<>> THEN <<>>
    ELSE (IF endswith(h[Head(order)].tag, "textarea") THEN <<Head(order)>> ELSE <<>>)
         \o TextareasIn(h, Tail(order))

\* the child at index i of kids follows a tbreak
HasPrecedingTbreak(h, kids, i) ==
    LET first == IndexOf(kids, kids[i])
    IN first > 1 /\ endswith(h[kids[first - 1]].tag, "tbreak")

\* the loop over the children of a textarea, from child i on: the heap, with
\* the clones made so far, and the children of the text element
RECURSIVE FlattenKids(_, _, _, _, _)
FlattenKids(h, kids, i, text_x, out) ==
    IF i > Len(kids) THEN [h |-> h, kids |-> out]
    ELSE LET child == kids[i]
         IN IF endswith(h[child].tag, "tbreak")
            THEN FlattenKids(h, kids, i + 1, text_x, out)
            ELSE IF HasPrecedingTbreak(h, kids, i) /\ endswith(h[child].tag, "tspan")
            THEN LET new_child ==
                         [tag |-> h[child].tag,
                          attrib |-> Set(Set(h[child].attrib, "x", text_x), "dy", LineHeight),
                          text |-> h[child].text,
                          tail |-> h[child].tail,
                          children |-> h[child].children]
                 IN FlattenKids(Append(h, new_child), kids, i + 1, text_x,
                                Append(out, Len(h) + 1))
            ELSE FlattenKids(h, kids, i + 1, text_x, Append(out, child))

\* the first descendant of root with the given tag, 0 when there is none
RECURSIVE FirstTagged(_, _, _)
FirstTagged(h, order, tag) ==
    IF order = <<>> THEN 0
    ELSE IF h[Head(order)].tag = tag THEN Head(order)
    ELSE FirstTagged(h, Tail(order), tag)

\* svg_root.find(".//" + tag + "/.."): the parent of the first descendant
\* tagged tag, 0 for None
\* the parent map of ElementPath is filled over root.iter(), so of the
\* elements that hold the descendant the last in document order is its parent
FindParentOfTag(h, root, tag) ==
    LET order == iter(h, root)
        e == FirstTagged(h, Tail(order), tag)
        holders == {i \in 1..Len(order) : e \in Range(h[order[i]].children)}
    IN IF e = 0 THEN 0 ELSE order[Greatest(holders)]

\* the parent in which the textarea is replaced: the one find names or, when
\* find names none, the first element that holds the textarea
ReplaceParent(h, root, textarea) ==
    LET parent == FindParentOfTag(h, root, h[textarea].tag)
    IN IF parent # 0 THEN parent ELSE FirstParent(h, iter(h, root), textarea)

\* list(parent).index(textarea) raises ValueError: find named a parent that
\* does not hold the textarea
ReplaceRaises(h, root, textarea) ==
    LET parent == FindParentOfTag(h, root, h[textarea].tag)
    IN parent # 0 /\ IndexOf(h[parent].children, textarea) = 0

\* one round of the loop over the textareas: the heap after the textarea is
\* replaced by its text element
ConvertOne(h, root, textarea) ==
    LET ta == h[textarea]
        r == FlattenKids(h, ta.children, 1, Get(ta.attrib, "x", "0"), <<>>)
        text_elem == [tag |-> Svg("text"), attrib |-> ta.attrib, text |-> ta.text,
                      tail |-> ta.tail, children |-> r.kids]
        h1 == Append(r.h, text_elem)
        parent == ReplaceParent(h1, root, textarea)
    IN IF parent = 0 \/ IndexOf(h1[parent].children, textarea) = 0 THEN h1
       ELSE [h1 EXCEPT ![parent].children[IndexOf(h1[parent].children, textarea)] = Len(h1)]

\* the loop over the textareas found at the start; a ValueError ends it
RECURSIVE ConvertAll(_, _, _)
ConvertAll(h, root, textareas) ==
    IF textareas = <<>> THEN h
    ELSE IF ReplaceRaises(h, root, Head(textareas)) THEN h
    ELSE ConvertAll(ConvertOne(h, root, Head(textareas)), root, Tail(textareas))

\* the heap after convert_textarea_to_text(svg_root)
convert_textarea_to_text(h, root) == ConvertAll(h, root, TextareasIn(h, iter(h, root)))

\* the textarea on which list(parent).index(textarea) raises ValueError, 0
\* when the loop over the textareas ends without
RECURSIVE RaisingTextarea(_, _, _)
RaisingTextarea(h, root, textareas) ==
    IF textareas = <<>> THEN 0
    ELSE IF ReplaceRaises(h, root, Head(textareas)) THEN Head(textareas)
    ELSE RaisingTextarea(ConvertOne(h, root, Head(textareas)), root, Tail(textareas))

\* convert_textarea_to_text(svg_root) raises ValueError
convert_textarea_to_text_raises(h, root) ==
    RaisingTextarea(h, root, TextareasIn(h, iter(h, root))) # 0

\* the last line of the traceback the interpreter prints to stderr for the
\* ValueError nothing catches: list.index words it, in Python 3.11, with the
\* repr of the element, whose address is written 0x.. here; the lines of the
\* traceback before it name the files of the installation and are left out
convert_textarea_to_text_traceback(h, root) ==
    LET textarea == RaisingTextarea(h, root, TextareasIn(h, iter(h, root)))
    IN IF textarea = 0 THEN <<>>
       ELSE <<"ValueError: <Element '" \o h[textarea].tag \o "' at 0x..> is not in list">>

(***************************************************************************)
(* iwb2pdf.py and pdf_engines: the choice of the PDF engine and the         *)
(* temporary directory of extract_iwb_to_pdf.  The system the program runs  *)
(* on is a record: what shutil.which("inkscape") returns ("" for None),     *)
(* sys.platform, and the paths that exist.  None is "" for a path and      *)
(* "None" for use_inkscape, whose other values are "True" and "False".      *)
(***************************************************************************)
System(which, platform, paths) == [which |-> which, platform |-> platform, paths |-> paths]

\* common_paths, by sys.platform
CommonPaths(platform) ==
    CASE platform = "win32" ->
             <<"C:\\Program Files\\Inkscape\\bin\\inkscape.exe",
               "C:\\Program Files (x86)\\Inkscape\\bin\\inkscape.exe",
               "C:\\Program Files\\Inkscape\\inkscape.exe",
               "C:\\Program Files (x86)\\Inkscape\\inkscape.exe">>
      [] platform = "darwin" ->
             <<"/Applications/Inkscape.app/Contents/MacOS/inkscape",
               "/usr/local/bin/inkscape",
               "/opt/homebrew/bin/inkscape">>
      [] platform = "linux" ->
             <<"/usr/bin/inkscape", "/usr/local/bin/inkscape", "/snap/bin/inkscape">>
      [] OTHER -> <<>>

\* the first of the paths that exists, "" when none does
RECURSIVE FirstExisting(_, _)
FirstExisting(paths, existing) ==
    IF paths = <<>> THEN ""
    ELSE IF Head(paths) \in existing THEN Head(paths)
    ELSE FirstExisting(Tail(paths), existing)

\* InkscapeEngine().find_inkscape() on system sys
find_inkscape(sys) ==
    IF sys.which # "" THEN sys.which
    ELSE FirstExisting(CommonPaths(sys.platform), sys.paths)

\* InkscapeEngine().is_available()
is_available(sys) == find_inkscape(sys) # ""

\* use_inkscape after the auto-detection of lines 25-27
Detected(use_inkscape, sys) ==
    IF use_inkscape = "None"
    THEN (IF is_available(sys) THEN "True" ELSE "False")
    ELSE use_inkscape

\* get_pdf_engine returning the Inkscape engine whenever it is asked for
GetPdfEngineAsAsked(use_inkscape, sys) ==
    IF use_inkscape = "True" \/ (use_inkscape = "None" /\ is_available(sys))
    THEN "InkscapeEngine" ELSE "SvglibEngine"

\* the class of the engine get_pdf_engine(use_inkscape) returns on system sys
get_pdf_engine(use_inkscape, sys) ==
    IF Detected(use_inkscape, sys) = "True" /\ is_available(sys)
    THEN "InkscapeEngine"
    ELSE "SvglibEngine"

\* what get_pdf_engine prints to stderr
get_pdf_engine_warnings(use_inkscape, sys) ==
    IF Detected(use_inkscape, sys) = "True" /\ ~is_available(sys)
    THEN <<"Inkscape requested but not found, falling back to svglib">>
    ELSE <<>>

\* the temporary directory left alone when the block is left by an exit or
\* an exception: removed on the normal path only
LeftBlockNormalOnly(dir, how) == IF how = "done" /\ dir = "exists" THEN "removed" ELSE dir

\* the temporary directory after the with block of extract_iwb_to_pdf is
\* left, however it is left: TemporaryDirectory.__exit__ removes it
LeftBlock(dir, how) == IF dir = "exists" THEN "removed" ELSE dir

(***************************************************************************)
(* The inputs: elements, pages, documents, archives, arguments             *)
(***************************************************************************)
\* the most children a tree that a function is called on directly starts with
MaxElems == 2

\* the most children the document root starts with
MaxPages == 2

Attrs4(x, y, w, hh) == <<<<"x", x>>, <<"y", y>>, <<"width", w>>, <<"height", hh>>>>

Rect(x, y, w, hh) == Node(Svg("rect"), Attrs4(x, y, w, hh), <<>>)

Image(href, id) ==
    Node(Svg("image"),
         Attrs4("0", "0", "150", "90") \o <<<<XlinkHref, href>>>>
           \o (IF id = "" THEN <<>> ELSE <<<<"id", id>>>>),
         <<>>)

TranslatedRect ==
    Node(Svg("rect"), <<<<"transform", "translate(60,0)">>>> \o Attrs4("10", "10", "50", "50"), <<>>)

RectInGroup ==
    Node(Svg("g"), <<<<"transform", "translate(60,0)">>>>, <<Rect("10", "10", "50", "50")>>)

GeometryElems ==
    { TranslatedRect,
      RectInGroup,
      Rect("20", "20", "30", "30"),
      Rect("500", "1", "abc", "5"),
      Node(Svg("polygon"), <<<<"points", "500,500 abc,3">>>>, <<>>),
      Node(Svg("polyline"), <<<<"points", "abc,3 400,700 9">>>>, <<>>),
      Node(Svg("circle"), <<<<"cx", "5">>, <<"cy", "200">>, <<"r", "5">>>>, <<>>),
      Node(Svg("ellipse"), <<<<"transform", "scale(2) translate( -5 7 )">>, <<"cx", "30">>,
                             <<"cy", "95">>, <<"rx", "1.2.3">>, <<"ry", "4">>>>, <<>>),
      Node(Svg("path"), <<<<"d", "M10 20L300.0 -40z">>>>, <<>>),
      Node(Svg("image"), Attrs4("0", "", "150", "900"), <<>>) }

ImageElems ==
    { Image("images/a.png", ""),
      Image("images/images/a.png", ""),
      Image("images/b.jpg", "backgroundImage1"),
      Image("other/a.png", ""),
      Node(Svg("g"), <<>>, <<Image("images/c.PNG", "backgroundImage2")>>),
      Node(QName(IWB_NS, "image"), <<<<XlinkHref, "images/a.png">>>>, <<>>) }

StyleElems ==
    { Node(Svg("rect"), <<<<"style", "fill:#fff;stroke:#000">>>>, <<>>),
      Node(Svg("rect"), <<>>, <<>>),
      Node(Svg("rect"), <<<<"id", "Autoshape1">>, <<"fill", "red">>>>, <<>>),
      Node(Svg("g"), <<<<"id", "Word7">>, <<"style", "fill:blue">>>>,
           <<Node(Svg("line"), <<<<"fill", "red">>, <<"style", "fill:green;stroke:red">>>>, <<>>)>>),
      Node(Svg("text"), <<<<"style", " fill : red ; ;x; stroke: #000 ">>>>, <<>>),
      Node(Svg("g"), <<<<"style", "x">>, <<"fill", "#000">>>>, <<>>),
      Node(Svg("circle"), <<<<"style", "">>>>, <<>>),
      Node(Svg("polygon"), <<<<"style", "a:b:c; fill:red;fill:blue;:">>>>, <<>>),
      Node(QName(IWB_NS, "path"), <<<<"style", "Fill:red;fill-opacity:1">>>>, <<>>) }

Tspan(attrib, text, kids) == TextNode(Svg("tspan"), attrib, text, "", kids)

Tbreak == Node(Svg("tbreak"), <<>>, <<>>)

\* a textarea below a tbreak of a textarea
TextareaInTbreak ==
    Node(Svg("textarea"), <<<<"id", "1">>>>,
         <<Node(Svg("tbreak"), <<>>, <<Node(Svg("textarea"), <<<<"id", "3">>>>, <<>>)>>)>>)

TextElems ==
    { TextareaInTbreak,
      TextNode(Svg("textarea"), <<<<"x", "5">>>>, "", "",
               <<Tspan(<<>>, "A", <<>>), Tbreak, Tspan(<<>>, "B", <<>>)>>),
      Node(Svg("g"), <<>>,
           <<TextNode(Svg("textarea"), <<<<"fill", "red">>>>, "t", "u",
                      <<Tbreak, TextNode(Svg("a"), <<>>, "q", "", <<>>), Tbreak, Tbreak,
                        Tspan(<<<<"x", "9">>, <<"dy", "3">>>>, "C", <<Rect("700", "0", "1", "1")>>)>>)>>),
      Node(QName(IWB_NS, "textarea"), <<>>, <<Node(Svg("textarea"), <<<<"id", "2">>>>, <<>>)>>),
      Tspan(<<>>, "loose", <<>>),
      Node(Svg("text"), <<<<"x", "1">>>>, <<>>) }

\* the sequences of at most n members of S
SeqsUpTo(S, n) == UNION {[1..k -> S] : k \in 0..n}

\* the declared sizes of a root: width and height attributes, or neither
DimAttrs(w, hh) == <<<<"width", w>>, <<"height", hh>>>>

DimInputs ==
    { DimAttrs("100", "100"), DimAttrs("40", "600.0"), DimAttrs("100%", "100"),
      DimAttrs("100", "abc"), DimAttrs("1.2.3", "100"), DimAttrs("150.", ""),
      DimAttrs("²", "100"), <<>> }

\* the trees the functions are called on directly, with no zip file at hand
TreeInputs ==
    {Node(Svg("svg"), d, kids) : d \in DimInputs, kids \in SeqsUpTo(GeometryElems, MaxElems)}
    \cup {Node(Svg("svg"), DimAttrs("100", "100"), kids) :
            kids \in SeqsUpTo(StyleElems, MaxElems) \cup SeqsUpTo(TextElems, MaxElems)}

\* the trees the functions are called on directly by a caller that holds a zip file
ImageTreeInputs ==
    {Node(Svg("svg"), DimAttrs("100", "100"), kids) : kids \in SeqsUpTo(ImageElems, MaxElems)}

\* the margins fix_svg_size is called with directly
MarginInputs == {0, 20, DefaultMargin}

PngA == <<137, 80, 78, 71>>

PngCompressedA == <<77, 97, 110>>

JpgB == <<255, 216, 255, 224, 0>>

\* what an archive holds besides its document
DocumentImageInputs ==
    { <<Entry("images/a.png", PngA), Entry("images/b.jpg", JpgB), Entry("images/c.PNG", <<1>>),
        Entry("thumbnail.png", <<4>>)>>,
      <<Entry("images/compressed_a.png", PngCompressedA)>>,
      <<>> }

\* the zip files the image functions are called with directly
ImageSetInputs ==
    DocumentImageInputs
    \cup { <<Entry("images/compressed_images/a.png", <<2, 3>>)>>,
           <<Entry("images/compressed_images/compressed_a.png", <<5, 6>>)>> }

Page(attrib, kids) == Node(Svg("page"), attrib, kids)

PageInputs ==
    { Page(DimAttrs("100", "100"), <<TranslatedRect, Image("images/a.png", "")>>),
      Page(DimAttrs("100", "100"),
           <<Image("images/missing.png", ""), Image("images/a.png", ""),
             Image("images/b.jpg", "backgroundImage1")>>),
      Page(<<<<"width", "100%">>>>,
           <<TextNode(Svg("textarea"), <<<<"x", "5">>>>, "", "",
                      <<Tspan(<<>>, "A", <<>>), Tbreak, Tspan(<<>>, "B", <<>>)>>),
             Node(Svg("rect"), <<<<"style", "fill:#fff;stroke:#000">>>>, <<>>)>>),
      Page(DimAttrs("300", "80"), <<RectInGroup>>) }

\* what the document root holds besides pages
NonPageInputs == { Node(QName(IWB_NS, "page"), <<>>, <<Rect("1", "1", "1", "1")>>) }

Document(kids) == Node(QName(IWB_NS, "iwb"), <<>>, kids)

DocumentInputs ==
    {Document(kids) : kids \in SeqsUpTo(PageInputs \cup NonPageInputs, MaxPages)}

OnePage == Document(<<Page(DimAttrs("100", "100"), <<Image("images/a.png", "")>>)>>)

\* a document whose second page holds a textarea below a tbreak of a textarea,
\* and a textarea after it
TextareaPages ==
    Document(<<Page(DimAttrs("100", "100"), <<Image("images/a.png", "")>>),
               Page(DimAttrs("100", "100"),
                    <<TextareaInTbreak, Node(Svg("textarea"), <<<<"id", "2">>>>, <<>>)>>),
               Page(DimAttrs("100", "100"), <<Rect("1", "1", "1", "1")>>)>>)

\* the archives extract_iwb_to_svg is run on
ArchiveInputs ==
    {<<DocEntry("content.xml", d)>> \o imgs :
        d \in DocumentInputs,
        imgs \in DocumentImageInputs}
    \cup { <<Entry("images/a.png", PngA), Entry("content.xml.bak", <<60>>)>>,
           <<>>,
           <<Entry("images/a.png", PngA), DocEntry("Content.XML", OnePage),
             DocEntry("other.xml", Document(<<>>))>>,
           <<DocEntry("empty.xml", Document(<<>>)), DocEntry("content.xml", OnePage),
             Entry("images/a.png", PngA)>>,
           <<DocEntry("content.xml", TextareaPages), Entry("images/a.png", PngA)>>,
           \* the same pages, the image of the first page missing
           <<DocEntry("content.xml", TextareaPages)>>,
           \* documents that are not well-formed: "<", and "hello" on a second line
           <<Entry("content.xml", <<60>>), Entry("images/a.png", PngA)>>,
           <<Entry("images/a.png", PngA),
             Entry("page.XML", <<10, 104, 101, 108, 108, 111>>)>>,
           \* the folder images/ has an entry of its own, as zip tools write it
           <<DocEntry("content.xml", OnePage), Entry("images/", <<>>),
             Entry("images/a.png", PngA)>>,
           \* two entries of one name
           <<Entry("images/a.png", PngCompressedA), DocEntry("content.xml", OnePage),
             Entry("images/a.png", PngA)>> }

Arguments(fix_fills, fix_size, images_mode, delete_background) ==
    [fix_fills |-> fix_fills, fix_size |-> fix_size, images_mode |-> images_mode,
     delete_background |-> delete_background]

\* the defaults of extract_iwb_to_svg's parameters
DefaultArguments == Arguments(TRUE, TRUE, "data_uri", FALSE)

\* every choice of the flags in the default images mode; in the other modes,
\* the flags all set or all clear
ArgumentInputs ==
    {Arguments(ff, fs, "data_uri", db) : ff \in BOOLEAN, fs \in BOOLEAN, db \in BOOLEAN}
    \cup {Arguments(b, b, im, b) : b \in BOOLEAN, im \in {"nothing", "copy_directory"}}

\* the archives extract_iwb_to_pdf is run on: one page, no document, no page,
\* and a page that convert_textarea_to_text raises on
PdfArchiveInputs ==
    { <<DocEntry("content.xml", OnePage), Entry("images/a.png", PngA)>>,
      <<Entry("images/a.png", PngA), Entry("content.xml.bak", <<60>>)>>,
      <<DocEntry("content.xml", Document(<<>>))>>,
      <<DocEntry("content.xml", TextareaPages), Entry("images/a.png", PngA)>>,
      <<Entry("content.xml", <<60, 112, 97, 103, 101>>)>> }

\* extract_iwb_to_pdf passes images_mode="data_uri"
PdfArgumentInputs == {Arguments(b, b, "data_uri", FALSE) : b \in BOOLEAN}

UseInkscapeInputs == {"None", "True", "False"}

\* Inkscape on the PATH; nowhere; at a common path of the platform; at a path
\* that is common on another platform only; on a platform without common paths
SystemInputs ==
    { System("/usr/bin/inkscape", "linux", {"/usr/bin/inkscape"}),
      System("", "linux", {}),
      System("", "linux", {"/snap/bin/inkscape"}),
      System("", "darwin", {"/usr/bin/inkscape"}),
      System("", "win32", {"C:\\Program Files\\Inkscape\\inkscape.exe"}),
      System("", "freebsd", {"/usr/local/bin/inkscape"}) }

(***************************************************************************)
(* The state                                                               *)
(***************************************************************************)
VARIABLES
    archive,    \* the entries of the zip file the running function reads
    opts,       \* the arguments of extract_iwb_to_svg
    heap,       \* every element there is; an element is its index
    parsed,     \* the heap as it was when the tree was first built
    before,     \* the heap as it was before the last step
    last,       \* the last step taken and the margin it was given
    pc,         \* where the program is
    pages,      \* the page elements found in the document
    idx,        \* the index of the page in hand
    svg_root,   \* the root of the tree in hand, 0 when there is none
    out_files,  \* the files of the output directory, by name
    stderr,     \* the lines printed to stderr
    pdf_pc,     \* where extract_iwb_to_pdf is, "" when it is not the one running
    temp_dir,   \* the temporary directory of extract_iwb_to_pdf
    use_inkscape, \* the argument of extract_iwb_to_pdf of that name
    system,     \* the system the program runs on
    engine      \* the class of the engine in hand, "" when there is none

vars == <<archive, opts, heap, parsed, before, last, pc, pages, idx, svg_root,
          out_files, stderr, pdf_pc, temp_dir, use_inkscape, system, engine>>

Step(op, margin) == [op |-> op, margin |-> margin]

\* extract_iwb_to_pdf is not the function called
NoPdfCall ==
    /\ pdf_pc = ""
    /\ temp_dir = "none"
    /\ use_inkscape = "None"
    /\ system = System("", "linux", {})

\* extract_iwb_to_svg is about to run on an archive
InitExtract ==
    /\ archive \in ArchiveInputs
    /\ opts \in ArgumentInputs
    /\ heap = <<>>
    /\ svg_root = 0
    /\ pc = "start"
    /\ NoPdfCall

\* a caller holds a tree, and a zip file when the tree has images, and is
\* about to call one of the functions on it
InitCall ==
    /\ \/ /\ archive = <<>>
          /\ \E t \in TreeInputs : heap = AllocTree(<<>>, t).h
       \/ /\ archive \in ImageSetInputs
          /\ \E t \in ImageTreeInputs : heap = AllocTree(<<>>, t).h
    /\ opts = DefaultArguments
    /\ svg_root = 1
    /\ pc = "call"
    /\ NoPdfCall

\* extract_iwb_to_pdf is about to run on an archive; out_files is what its
\* temporary directory holds
InitPdf ==
    /\ archive \in PdfArchiveInputs
    /\ opts \in PdfArgumentInputs
    /\ use_inkscape \in UseInkscapeInputs
    /\ system \in SystemInputs
    /\ heap = <<>>
    /\ svg_root = 0
    /\ pc = "pdf_entry"
    /\ pdf_pc = "entry"
    /\ temp_dir = "none"

Init ==
    /\ InitExtract \/ InitCall \/ InitPdf
    /\ engine = ""
    /\ parsed = heap
    /\ before = heap
    /\ last = Step("", 0)
    /\ pages = <<>>
    /\ idx = 0
    /\ out_files = <<>>
    /\ stderr = <<>>

(***************************************************************************)
(* extract_iwb_to_svg, step by step                                        *)
(***************************************************************************)
\* the names of the archive that end in ".xml", whatever the case
RECURSIVE XmlNames(_)
XmlNames(names) ==
    IF names = <<>> THEN <<>>
    ELSE (IF endswith(lower(Head(names)), ".xml") THEN <<Head(names)>> ELSE <<>>)
         \o XmlNames(Tail(names))

\* the descendants of root tagged svg:page, in document order
RECURSIVE PagesIn(_, _)
PagesIn(h, order) ==
    IF order = <<>> THEN <<>>
    ELSE (IF h[Head(order)].tag = Svg("page") THEN <<Head(order)>> ELSE <<>>)
         \o PagesIn(h, Tail(order))

\* root.findall(".//svg:page", ns)
FindPages(h, root) == PagesIn(h, Tail(iter(h, root)))

\* the entry of the first name of XmlNames
DocumentEntry(z) == z[Greatest({i \in 1..Len(z) : z[i].name = XmlNames(namelist(z))[1]})]

\* iwb2pdf.py lines 71-87: a sys.exit or an exception of extract_iwb_to_svg
\* leaves the with block of extract_iwb_to_pdf when that is the caller
Unwind ==
    LET \* how the step in hand leaves extract_iwb_to_svg, "" when it does not
        leaving == IF pc' = "exit1" THEN "exit1"
                   ELSE IF pc' = "crashed" THEN "raised" ELSE ""
    IN /\ pdf_pc' = IF pdf_pc = "extracting" /\ leaving # "" THEN leaving ELSE pdf_pc
       /\ temp_dir' = IF pdf_pc = "extracting" /\ leaving # ""
                      THEN LeftBlock(temp_dir, leaving) ELSE temp_dir
       /\ UNCHANGED <<use_inkscape, system, engine>>

\* lines 383-395: the document is looked up and parsed, or the program
\* exits, or the ParseError of ET.fromstring, caught nowhere, ends it
OpenArchive ==
    /\ pc = "start"
    /\ IF XmlNames(namelist(archive)) = <<>>
       THEN /\ stderr' = Append(stderr, "No XML file found in IWB.")
            /\ pc' = "exit1"
            /\ UNCHANGED <<heap, parsed>>
       ELSE IF DocumentEntry(archive).tree = NoTree
       THEN /\ stderr' = Append(stderr, "xml.etree.ElementTree.ParseError: "
                                           \o ParseError(DocumentEntry(archive).data))
            /\ pc' = "crashed"
            /\ UNCHANGED <<heap, parsed>>
       ELSE /\ heap' = AllocTree(<<>>, DocumentEntry(archive).tree).h
            /\ parsed' = heap'
            /\ pc' = "find_pages"
            /\ UNCHANGED stderr
    /\ before' = heap
    /\ last' = Step("open", 0)
    /\ UNCHANGED <<archive, opts, pages, idx, svg_root, out_files>>
    /\ Unwind

\* ListPages with the images copied before the pages are looked for
ListPagesCopyFirst ==
    /\ pc = "find_pages"
    /\ pages' = FindPages(heap, 1)
    /\ out_files' = IF opts.images_mode = "copy_directory"
                     THEN process_images_copy_directory(out_files, archive)
                     ELSE out_files
    /\ IF opts.images_mode = "copy_directory"
          /\ process_images_copy_directory_traceback(out_files, archive) # <<>>
       THEN /\ stderr' = stderr \o process_images_copy_directory_traceback(out_files, archive)
            /\ pc' = "crashed"
       ELSE IF pages' = <<>>
       THEN /\ stderr' = Append(stderr, "No <svg:page> elements found.")
            /\ pc' = "exit1"
       ELSE /\ pc' = "page"
            /\ UNCHANGED stderr
    /\ before' = heap
    /\ last' = Step("pages", 0)
    /\ UNCHANGED <<archive, opts, heap, parsed, idx, svg_root>>
    /\ Unwind

\* lines 397-406: the pages are listed, or the program exits; in
\* copy_directory mode the images are copied before the first page, and an
\* OSError of the copy is caught nowhere and ends the program
ListPages ==
    /\ pc = "find_pages"
    /\ pages' = FindPages(heap, 1)
    /\ IF pages' = <<>>
       THEN /\ stderr' = Append(stderr, "No <svg:page> elements found.")
            /\ pc' = "exit1"
            /\ UNCHANGED out_files
       ELSE IF opts.images_mode = "copy_directory"
       THEN /\ out_files' = process_images_copy_directory(out_files, archive)
            /\ stderr' = stderr \o process_images_copy_directory_traceback(out_files, archive)
            /\ pc' = IF process_images_copy_directory_traceback(out_files, archive) # <<>>
                     THEN "crashed" ELSE "page"
       ELSE /\ pc' = "page"
            /\ UNCHANGED <<out_files, stderr>>
    /\ before' = heap
    /\ last' = Step("pages", 0)
    /\ UNCHANGED <<archive, opts, heap, parsed, idx, svg_root>>
    /\ Unwind

\* the stage that follows each stage of the loop body, given the arguments
AfterFills(o) == IF o.fix_size THEN "size" ELSE "write"

AfterTextarea(o) == IF o.fix_fills THEN "fills" ELSE AfterFills(o)

AfterInline(o) == IF o.delete_background THEN "delete" ELSE "textarea"

AfterRepair(o) == IF o.images_mode = "data_uri" THEN "inline" ELSE AfterInline(o)

\* lines 409-419: the svg element of the page, holding the page's children
SvgRootOf(page) ==
    [tag |-> Svg("svg"),
     attrib |-> <<<<"version", "1.1">>,
                  <<"width", Get(page.attrib, "width", "100%")>>,
                  <<"height", Get(page.attrib, "height", "100%")>>>>,
     text |-> "", tail |-> "", children |-> page.children]

BuildSvgRoot ==
    /\ pc = "page"
    /\ heap' = Append(heap, SvgRootOf(heap[pages[idx + 1]]))
    /\ svg_root' = Len(heap) + 1
    /\ pc' = "repair"
    /\ before' = heap
    /\ last' = Step("svg_root", 0)
    /\ UNCHANGED <<archive, opts, parsed, pages, idx, out_files, stderr>>
    /\ Unwind

\* line 422
RepairImages ==
    /\ pc = "repair"
    /\ heap' = fix_compressed_unexistent_images(heap, svg_root, archive)
    /\ pc' = AfterRepair(opts)
    /\ before' = heap
    /\ last' = Step("fix_compressed_unexistent_images", 0)
    /\ UNCHANGED <<archive, opts, parsed, pages, idx, svg_root, out_files, stderr>>
    /\ Unwind

\* lines 423-424
InlineImages ==
    /\ pc = "inline"
    /\ heap' = process_images_data_uri(heap, svg_root, archive)
    /\ stderr' = stderr \o process_images_data_uri_warnings(heap, svg_root, archive)
    /\ pc' = AfterInline(opts)
    /\ before' = heap
    /\ last' = Step("process_images_data_uri", 0)
    /\ UNCHANGED <<archive, opts, parsed, pages, idx, svg_root, out_files>>
    /\ Unwind

\* lines 429-430
DeleteBackground ==
    /\ pc = "delete"
    /\ heap' = delete_background_images(heap, svg_root)
    /\ pc' = "textarea"
    /\ before' = heap
    /\ last' = Step("delete_background_images", 0)
    /\ UNCHANGED <<archive, opts, parsed, pages, idx, svg_root, out_files, stderr>>
    /\ Unwind

\* line 433; a ValueError is caught nowhere and ends the program
ConvertTextarea ==
    /\ pc = "textarea"
    /\ heap' = convert_textarea_to_text(heap, svg_root)
    /\ pc' = IF convert_textarea_to_text_raises(heap, svg_root)
             THEN "crashed" ELSE AfterTextarea(opts)
    /\ before' = heap
    /\ stderr' = stderr \o convert_textarea_to_text_traceback(heap, svg_root)
    /\ last' = Step("convert_textarea_to_text", 0)
    /\ UNCHANGED <<archive, opts, parsed, pages, idx, svg_root, out_files>>
    /\ Unwind

\* lines 436-437
RemoveFills ==
    /\ pc = "fills"
    /\ heap' = remove_fills(heap, svg_root)
    /\ pc' = AfterFills(opts)
    /\ before' = heap
    /\ last' = Step("remove_fills", 0)
    /\ UNCHANGED <<archive, opts, parsed, pages, idx, svg_root, out_files, stderr>>
    /\ Unwind

\* lines 439-440: the margin is the default
FixSize ==
    /\ pc = "size"
    /\ heap' = fix_svg_size(heap, svg_root, DefaultMargin)
    /\ stderr' = stderr \o fix_svg_size_warnings(heap, svg_root)
    /\ pc' = "write"
    /\ before' = heap
    /\ last' = Step("fix_svg_size", DefaultMargin)
    /\ UNCHANGED <<archive, opts, parsed, pages, idx, svg_root, out_files>>
    /\ Unwind

\* the pages numbered from one
PageFileNameFromOne(i) == "page_" \o NatStr(i + 1) \o ".svg"

\* f"page_{idx}.svg"
PageFileName(i) == "page_" \o NatStr(i) \o ".svg"

\* lines 442-446: the page is written; the loop goes on to the next page or ends
WritePage ==
    /\ pc = "write"
    /\ out_files' = (PageFileName(idx) :> SvgFile(Serialize(heap, svg_root))) @@ out_files
    /\ idx' = idx + 1
    /\ pc' = IF idx + 1 < Len(pages) THEN "page" ELSE "done"
    /\ before' = heap
    /\ last' = Step("write", 0)
    /\ UNCHANGED <<archive, opts, heap, parsed, pages, svg_root, stderr>>
    /\ Unwind

(***************************************************************************)
(* extract_iwb_to_pdf around extract_iwb_to_svg                            *)
(***************************************************************************)
\* the text of the UnicodeDecodeError of bytes.decode("utf-8"), "" when the
\* bytes are UTF-8: subprocess.run(..., text=True) decodes what the program
\* wrote, its stdout before its stderr, in a UTF-8 locale.  The error is at
\* the first byte that starts no sequence, or at the first sequence that
\* ends too soon or goes on with a byte that cannot follow.
DecodeError(bytes) ==
    LET n == Len(bytes)
        \* the bytes that are to follow the first byte ch of a sequence, -1
        \* when ch starts none
        need(ch) == IF ch < 128 THEN 0
                    ELSE IF ch < 194 THEN -1
                    ELSE IF ch < 224 THEN 1
                    ELSE IF ch < 240 THEN 2
                    ELSE IF ch < 245 THEN 3 ELSE -1
        \* b can follow ch as the k-th byte after it
        follows(ch, k, b) ==
            IF k > 1 THEN b \in 128..191
            ELSE CASE ch = 224 -> b \in 160..191
                   [] ch = 237 -> b \in 128..159
                   [] ch = 240 -> b \in 144..191
                   [] ch = 244 -> b \in 128..143
                   [] OTHER -> b \in 128..191
        \* how many bytes after the one at i go on with its sequence
        good(i) == Greatest({g \in 0..need(bytes[i]) :
                                \A k \in 1..g : i + k <= n /\ follows(bytes[i], k, bytes[i + k])})
        \* the index of the first byte of the first bad sequence from i on, 0
        \* when there is none
        RECURSIVE first_bad(_)
        first_bad(i) ==
            IF i > n THEN 0
            ELSE IF need(bytes[i]) = -1 \/ good(i) < need(bytes[i]) THEN i
            ELSE first_bad(i + need(bytes[i]) + 1)
        i == first_bad(1)
        hex(d) == Char("0123456789abcdef", d + 1)
    IN IF i = 0 THEN ""
       ELSE "'utf-8' codec can't decode "
            \o (IF good(i) = 0
                THEN "byte 0x" \o hex(bytes[i] \div 16) \o hex(bytes[i] % 16)
                     \o " in position " \o NatStr(i - 1)
                ELSE "bytes in position " \o NatStr(i - 1) \o "-" \o NatStr(i - 1 + good(i)))
            \o ": "
            \o (IF need(bytes[i]) = -1 THEN "invalid start byte"
                ELSE IF i + good(i) >= n THEN "unexpected end of data"
                ELSE "invalid continuation byte")

\* how engine.combine_svgs_to_pdf can end on a directory of n page files,
\* page_0.svg to page_(n-1).svg, and what is printed to stderr: it returns
\* ("done"), it calls sys.exit(1) ("exit1"), or an exception leaves it
\* ("raised") and the interpreter prints the traceback, of which the last
\* line is kept.  What Inkscape and svglib do with a page, whether PyPDF2 is
\* installed and whether the PDF can be written are not the program's to
\* decide: every combination is an outcome.  The directory of the pages is
\* written <temp_dir>, the temporary directory of the Inkscape engine /tmp/X
\* and the PDF to write <output_pdf>; the texts of the errors of Inkscape,
\* svglib, PyPDF2 and reportlab stand for any, as do the outputs of Inkscape
\* that are no UTF-8, and the path of Inkscape is written as repr writes it,
\* its backslashes doubled.
EngineOutcomes(class, sys, n) ==
    LET no_files == [ends |-> "exit1", stderr |-> <<"No SVG files found in <temp_dir>">>]
        name(i) == PageFileName(i)
        inkscape_path == "'" \o replace(find_inkscape(sys), "\\", "\\\\") \o "'"
        \* outputs of the program that are no UTF-8: a byte that starts no
        \* sequence, at the start and after text, a sequence cut short, and
        \* one that goes on with a byte that cannot follow
        undecodable == {<<255>>, <<128>>, <<97, 98, 99, 255>>, <<111, 107, 32, 195>>,
                        <<195, 40>>, <<226, 130>>, <<226, 130, 40>>}
        \* inkscape_engine.py line 116: what subprocess.run raises on a program
        \* that cannot be run, or on output of the program that is no UTF-8;
        \* line 129 prints the text of any exception but TimeoutExpired
        run_errors == {"[Errno 2] No such file or directory: " \o inkscape_path,
                       "[Errno 8] Exec format error: " \o inkscape_path,
                       "[Errno 13] Permission denied: " \o inkscape_path}
                      \cup {DecodeError(output) : output \in undecodable}
        \* lines 104-130: the first page that is not converted
        inkscape_stops ==
            {[ends |-> "exit1", stderr |-> <<line>>] :
                line \in UNION {{"Failed to convert " \o name(i) \o ": cannot render",
                                 "Inkscape conversion timed out for " \o name(i)}
                                \cup {"Error converting " \o name(i) \o ": " \o e :
                                         e \in run_errors} : i \in 0..(n - 1)}}
        \* line 109 with no Inkscape found: the command starts with None and
        \* subprocess.run raises on the first page
        no_inkscape ==
            [ends |-> "exit1",
             stderr |-> <<"Error converting " \o name(0)
                              \o ": expected str, bytes or os.PathLike object, not NoneType">>]
        \* the PDF of the first page is not there
        no_page == "FileNotFoundError: [Errno 2] No such file or directory: '/tmp/X/page_0.pdf'"
        \* the PDF cannot be written: its directory is not there, or is a
        \* file, or cannot be written to
        no_output ==
            {"FileNotFoundError: [Errno 2] No such file or directory: '<output_pdf>'",
             "NotADirectoryError: [Errno 20] Not a directory: '<output_pdf>'",
             "PermissionError: [Errno 13] Permission denied: '<output_pdf>'"}
        \* lines 133-151: PyPDF2 merges, or is missing and the first page is copied
        missing == "PyPDF2 not available, using reportlab for PDF merging"
        first_only == "Warning: Only first page saved. Install PyPDF2 for full merging: pip install PyPDF2"
        inkscape_merges ==
            {[ends |-> "done", stderr |-> <<>>],
             [ends |-> "done", stderr |-> <<missing, first_only>>]}
            \cup {[ends |-> "raised", stderr |-> <<traceback>>] :
                     traceback \in {no_page} \cup no_output}
            \cup {[ends |-> "raised", stderr |-> <<missing, traceback>>] :
                     traceback \in {no_page} \cup no_output}
        \* svglib_engine.py lines 37-42 and 70-75: svg2rlg raises, returns None,
        \* or returns a drawing, page by page
        skipped(i, what) ==
            IF what = "raises"
            THEN <<"Warning: Could not convert <temp_dir>/" \o name(i)
                       \o " to drawing: syntax error",
                   "Skipping <temp_dir>/" \o name(i)>>
            ELSE IF what = "none" THEN <<"Skipping <temp_dir>/" \o name(i)>>
            ELSE <<>>
        RECURSIVE lines(_, _)
        lines(what, i) == IF i >= n THEN <<>> ELSE skipped(i, what[i]) \o lines(what, i + 1)
        \* lines 87-134: the PDF is written, or reportlab raises
        svglib_ends ==
            {[ends |-> IF traceback = "" THEN "done" ELSE "raised",
              stderr |-> lines(what, 0) \o (IF traceback = "" THEN <<>> ELSE <<traceback>>)] :
                traceback \in {""} \cup no_output,
                what \in [0..(n - 1) -> {"drawing", "none", "raises"}]}
    IN IF n = 0 THEN {no_files}
       ELSE IF class = "InkscapeEngine"
       THEN IF find_inkscape(sys) = "" THEN {no_inkscape}
            ELSE inkscape_stops \cup inkscape_merges
       ELSE svglib_ends

\* iwb2pdf.py line 71: the temporary directory is made, and extract_iwb_to_svg
\* is called on it
EnterTempDir ==
    /\ pc = "pdf_entry"
    /\ pdf_pc = "entry"
    /\ temp_dir' = "exists"
    /\ pdf_pc' = "extracting"
    /\ pc' = "start"
    /\ before' = heap
    /\ last' = Step("temp_dir", 0)
    /\ UNCHANGED <<archive, opts, heap, parsed, pages, idx, svg_root, out_files, stderr,
                   use_inkscape, system, engine>>

\* iwb2pdf.py line 52: combine_svgs_to_pdf chooses the engine
SelectEngine ==
    /\ pc = "done"
    /\ pdf_pc = "extracting"
    /\ engine' = get_pdf_engine(use_inkscape, system)
    /\ stderr' = stderr \o get_pdf_engine_warnings(use_inkscape, system)
    /\ pdf_pc' = "combine"
    /\ before' = heap
    /\ last' = Step("get_pdf_engine", 0)
    /\ UNCHANGED <<archive, opts, heap, parsed, pc, pages, idx, svg_root, out_files,
                   temp_dir, use_inkscape, system>>

\* iwb2pdf.py line 53 and the end of the with block: the engine runs on the
\* temporary directory and the block is left; an exception that leaves the
\* engine leaves the program, with the last line of its traceback on stderr
CombineSvgs ==
    /\ pdf_pc = "combine"
    /\ \E outcome \in EngineOutcomes(engine, system,
                                      Cardinality({f \in DOMAIN out_files :
                                                      startswith(f, "page_")
                                                      /\ endswith(f, ".svg")})) :
           /\ pdf_pc' = outcome.ends
           /\ temp_dir' = LeftBlock(temp_dir, outcome.ends)
           /\ stderr' = stderr \o outcome.stderr
    /\ before' = heap
    /\ last' = Step("combine_svgs_to_pdf", 0)
    /\ UNCHANGED <<archive, opts, heap, parsed, pc, pages, idx, svg_root, out_files,
                   use_inkscape, system, engine>>

(***************************************************************************)
(* The functions called directly on a tree                                 *)
(***************************************************************************)
Return(op, margin) ==
    /\ pc = "call"
    /\ pc' = "returned"
    /\ before' = heap
    /\ last' = Step(op, margin)
    /\ UNCHANGED <<archive, opts, parsed, pages, idx, svg_root, out_files>>
    /\ Unwind

CallFixSvgSize ==
    \E margin \in MarginInputs :
        /\ Return("fix_svg_size", margin)
        /\ heap' = fix_svg_size(heap, svg_root, margin)
        /\ stderr' = stderr \o fix_svg_size_warnings(heap, svg_root)

CallRemoveFills ==
    /\ Return("remove_fills", 0)
    /\ heap' = remove_fills(heap, svg_root)
    /\ UNCHANGED stderr

\* the call returns, or the ValueError of line 144 is raised to the caller
CallConvertTextarea ==
    /\ pc = "call"
    /\ pc' = IF convert_textarea_to_text_raises(heap, svg_root) THEN "raised" ELSE "returned"
    /\ heap' = convert_textarea_to_text(heap, svg_root)
    /\ stderr' = stderr \o convert_textarea_to_text_traceback(heap, svg_root)
    /\ before' = heap
    /\ last' = Step("convert_textarea_to_text", 0)
    /\ UNCHANGED <<archive, opts, parsed, pages, idx, svg_root, out_files>>
    /\ Unwind

CallDeleteBackground ==
    /\ Return("delete_background_images", 0)
    /\ heap' = delete_background_images(heap, svg_root)
    /\ UNCHANGED stderr

\* zip_file is the zip file the caller holds
CallRepairImages ==
    /\ Return("fix_compressed_unexistent_images", 0)
    /\ heap' = fix_compressed_unexistent_images(heap, svg_root, archive)
    /\ UNCHANGED stderr

CallInlineImages ==
    /\ Return("process_images_data_uri", 0)
    /\ heap' = process_images_data_uri(heap, svg_root, archive)
    /\ stderr' = stderr \o process_images_data_uri_warnings(heap, svg_root, archive)

Next ==
    \/ OpenArchive
    \/ ListPages
    \/ BuildSvgRoot
    \/ RepairImages
    \/ InlineImages
    \/ DeleteBackground
    \/ ConvertTextarea
    \/ RemoveFills
    \/ FixSize
    \/ WritePage
    \/ EnterTempDir
    \/ SelectEngine
    \/ CombineSvgs
    \/ CallFixSvgSize
    \/ CallRemoveFills
    \/ CallConvertTextarea
    \/ CallDeleteBackground
    \/ CallRepairImages
    \/ CallInlineImages

Spec == Init /\ [][Next]_vars

(***************************************************************************)
(* Properties of fix_svg_size                                              *)
(***************************************************************************)
\* the declared dimensions of the tree in hand, in heap h
WidthOf(h) == Get(h[svg_root].attrib, "width", "100%")

HeightOf(h) == Get(h[svg_root].attrib, "height", "100%")

\* a numeric string: digits with at most one point among them
NumericString(s) ==
    /\ \A i \in 1..Len(s) : Char(s, i) \in Digits \cup {"."}
    /\ \E i \in 1..Len(s) : Char(s, i) \in Digits
    /\ Cardinality({i \in 1..Len(s) : Char(s, i) = "."}) <= 1

DeclaredNumeric(h) == NumericString(WidthOf(h)) /\ NumericString(HeightOf(h))

\* fix_svg_size has just returned
SizeFixed == last.op = "fix_svg_size"

\* C1: after fix_svg_size with a non-negative margin on a tree whose declared
\* width and height are both numeric, neither dimension is lower than before
C1_NeverShrinks ==
    (SizeFixed /\ last.margin >= 0 /\ DeclaredNumeric(before))
    => /\ FloatOk(WidthOf(heap)) /\ FloatVal(WidthOf(heap)) >= FloatVal(WidthOf(before))
       /\ FloatOk(HeightOf(heap)) /\ FloatVal(HeightOf(heap)) >= FloatVal(HeightOf(before))

\* a call that widened the canvas while the declared height, larger than the
\* content's extent plus the margin, stayed
C1_Witness ==
    /\ SizeFixed /\ last.margin >= 0 /\ DeclaredNumeric(before)
    /\ FloatVal(WidthOf(heap)) > FloatVal(WidthOf(before))
    /\ FloatVal(HeightOf(heap)) = FloatVal(HeightOf(before))
    /\ ContentExtent(before, svg_root)[2] + last.margin < FloatVal(HeightOf(before))

\* the greater of two numbers
Greater(a, b) == IF a >= b THEN a ELSE b

\* the resize rule, given the declared size w, hh and the extents m of the tree before
ResizeRule(w, hh, m) ==
    IF m[1] > w \/ m[2] > hh
    THEN /\ WidthOf(heap) = FloatStr(Greater(w, m[1] + last.margin))
         /\ HeightOf(heap) = FloatStr(Greater(hh, m[2] + last.margin))
    ELSE heap[svg_root].attrib = before[svg_root].attrib

\* C2: with numeric declared dimensions, if max_x > width or max_y > height both
\* attributes are overwritten, with max(width, max_x + margin) and
\* max(height, max_y + margin); if neither extent exceeds its dimension the
\* attributes are left exactly as they were
C2_ResizeRule ==
    (SizeFixed /\ DeclaredNumeric(before))
    => ResizeRule(FloatVal(WidthOf(before)), FloatVal(HeightOf(before)),
                  ContentExtent(before, svg_root))

\* a call that resized a canvas whose content overflows in one direction only
C2_Witness ==
    /\ SizeFixed /\ DeclaredNumeric(before)
    /\ ContentExtent(before, svg_root)[1] > FloatVal(WidthOf(before))
    /\ ContentExtent(before, svg_root)[2] <= FloatVal(HeightOf(before))
    /\ WidthOf(heap) # WidthOf(before)
    /\ HeightOf(heap) # HeightOf(before)

\* the page of C3: 100x100, a rect at (10,10) of size (50,50) under a group
\* that carries translate(60,0)
C3Page == Node(Svg("svg"), DimAttrs("100", "100"), <<RectInGroup>>)

\* C3: fix_svg_size with margin 100 enlarges the page of C3 to at least 170x160
C3_AncestorTranslate ==
    (SizeFixed /\ last.margin = 100 /\ Serialize(before, svg_root) = C3Page)
    => /\ FloatOk(WidthOf(heap)) /\ FloatVal(WidthOf(heap)) >= 170
       /\ FloatOk(HeightOf(heap)) /\ FloatVal(HeightOf(heap)) >= 160

\* an attribute that is there and that float() rejects
BadNumber(attrib, k) == Has(attrib, k) /\ ~FloatOk(Get(attrib, k, ""))

\* some coordinate the scan reads from the points list is not a number
BadPoints(tokens) == \E i \in 1..(2 * (Len(tokens) \div 2)) : ~FloatOk(tokens[i])

\* the geometry attributes of el fail to parse
GeometryFails(el, local) ==
    CASE local \in {"rect", "image"} ->
             \E k \in {"x", "y", "width", "height"} : BadNumber(el.attrib, k)
      [] local = "circle" -> \E k \in {"cx", "cy", "r"} : BadNumber(el.attrib, k)
      [] local = "ellipse" -> \E k \in {"cx", "cy", "rx", "ry"} : BadNumber(el.attrib, k)
      [] local \in {"polyline", "polygon"} ->
             BadPoints(PointTokens(Get(el.attrib, "points", "")))
      [] OTHER -> FALSE

\* the maxima after the first i elements of order
ExtentAfter(h, order, i) == Extent(h, SubSeq(order, 1, i), <<0, 0>>)

ContributesNothing(h, order) ==
    \A i \in 1..Len(order) :
        GeometryFails(h[order[i]], LocalName(h[order[i]].tag))
        => ExtentAfter(h, order, i) = ExtentAfter(h, order, i - 1)

\* C4: in the scan of fix_svg_size, an element whose geometry attributes fail
\* to parse leaves max_x and max_y as they were before it
C4_UnparsableContributesNothing ==
    (SizeFixed /\ DeclaredNumeric(before)) => ContributesNothing(before, iter(before, svg_root))

\* C5: when either declared dimension is a percentage or otherwise not numeric,
\* fix_svg_size leaves every element and attribute of the tree as it was
C5_NonNumericNoOp == (SizeFixed /\ ~DeclaredNumeric(before)) => heap = before

\* a call on a tree of percentage width whose content reaches beyond 100
C5_Witness ==
    /\ SizeFixed /\ WidthOf(before) = "100%" /\ NumericString(HeightOf(before))
    /\ ContentExtent(before, svg_root)[1] > 100
    /\ heap = before

(***************************************************************************)
(* Properties of the image functions                                       *)
(***************************************************************************)
\* the href of element e in heap h, "" when it has none
HrefOf(h, e) == Get(h[e].attrib, XlinkHref, "")

\* fix_compressed_unexistent_images has just returned
ImagesRepaired == last.op = "fix_compressed_unexistent_images"

\* process_images_data_uri has just returned
ImagesInlined == last.op = "process_images_data_uri"

\* extract_iwb_to_svg is running, or has ended
Extracting == pc \notin {"call", "returned", "raised", "pdf_entry"}

\* href with "compressed_" inserted once, after its leading "images/"
CandidateOnce(href) == "images/compressed_" \o From(href, Len("images/") + 1)

\* the href the repair is to leave, by C6
RepairedOnce(href, z) ==
    IF InArchive(z, CandidateOnce(href)) THEN CandidateOnce(href) ELSE href

\* C6: a .png href under images/ that is absent from the archive becomes the
\* href with "compressed_" inserted once after the leading "images/" if and
\* only if that candidate is in the archive, and stays as it was otherwise
C6_CandidateInsertedOnce ==
    ImagesRepaired
    => \A e \in Range(Images(before, svg_root)) :
           (/\ startswith(HrefOf(before, e), "images/")
            /\ endswith(HrefOf(before, e), ".png")
            /\ ~InArchive(archive, HrefOf(before, e)))
           => HrefOf(heap, e) = RepairedOnce(HrefOf(before, e), archive)

\* the images of the page in hand that the document gave the href images/a.png
ReferencingA == {e \in Range(Images(heap, svg_root)) : HrefOf(parsed, e) = "images/a.png"}

\* C7: with images/compressed_a.png in the archive and images/a.png not, an
\* image that referenced images/a.png has, after the repair and the inlining
\* of extract_iwb_to_svg, the href data:image/png;base64, followed by the
\* base64 encoding of the bytes of images/compressed_a.png
C7_RepairedThenInlined ==
    (/\ Extracting /\ ImagesInlined
     /\ InArchive(archive, "images/compressed_a.png")
     /\ ~InArchive(archive, "images/a.png"))
    => \A e \in ReferencingA :
           HrefOf(heap, e) = "data:image/png;base64,"
                               \o b64encode(ReadEntry(archive, "images/compressed_a.png"))

\* the bytes "Man" of images/compressed_a.png have been inlined as TWFu
C7_Witness ==
    /\ Extracting /\ ImagesInlined
    /\ InArchive(archive, "images/compressed_a.png")
    /\ ~InArchive(archive, "images/a.png")
    /\ ReadEntry(archive, "images/compressed_a.png") = <<77, 97, 110>>
    /\ \E e \in ReferencingA : HrefOf(heap, e) = "data:image/png;base64,TWFu"

\* the images process_images_data_uri looks up, and those among them that
\* are missing from the archive
LookedUp == {e \in Range(Images(before, svg_root)) : startswith(HrefOf(before, e), "images/")}

Missing == {e \in LookedUp : ~InArchive(archive, HrefOf(before, e))}

\* a warning about a missing image has been printed
Warned == \E i \in 1..Len(stderr) : startswith(stderr[i], "Warning: Image file not found")

\* every page element has its file
PagesWritten == \A i \in 0..(Len(pages) - 1) : ("page_" \o NatStr(i) \o ".svg") \in DOMAIN out_files

\* the places of the loop over the pages, each with a step to take
InLoop == {"page", "repair", "inline", "delete", "textarea", "fills", "size", "write"}

\* what process_images_data_uri leaves: an image under images/ whose entry is
\* missing keeps its href and a warning is printed; the other images of the
\* page are inlined
ImagesOfPageProcessed ==
    ImagesInlined
    => /\ \A e \in Missing :
              /\ heap[e] = before[e]
              /\ \E i \in 1..Len(stderr) :
                     stderr[i] = "Warning: Image file not found in IWB: " \o HrefOf(before, e)
       /\ \A e \in LookedUp \ Missing :
              startswith(HrefOf(heap, e), "data:")

\* C8: in data_uri mode an image under images/ whose entry is missing keeps its
\* href and a warning is printed; the other images of the page are inlined;
\* the run stays in the loop over the pages, and ends with the file of every
\* page written
C8_MissingImageKept ==
    /\ ImagesOfPageProcessed
    /\ (Extracting /\ Warned)
       => /\ pc \in InLoop \cup {"done"}
          /\ pc = "done" => PagesWritten

\* C8, of the image step alone and of the runs no exception ends: after the
\* warning the run stays in the loop and ends with the file of every page
\* written
C8_KeptUnlessRaised ==
    /\ ImagesOfPageProcessed
    /\ (Extracting /\ Warned /\ pc # "crashed")
       => /\ pc \in InLoop \cup {"done"}
          /\ pc = "done" => PagesWritten

\* a missing image was warned about on the first page, and the run has ended
\* on a later page without the file of that page
C8_WitnessCrashed ==
    /\ Extracting /\ Warned /\ pc = "crashed"
    /\ "page_0.svg" \in DOMAIN out_files
    /\ ~PagesWritten

\* a run of two pages has ended; on the first, a missing image kept its href
\* and the image after it was inlined
C8_Witness ==
    /\ Extracting /\ Warned /\ pc = "done" /\ Len(pages) = 2 /\ PagesWritten
    /\ \E e \in 1..Len(parsed) :
           /\ HrefOf(parsed, e) = "images/missing.png"
           /\ HrefOf(heap, e) = "images/missing.png"
           /\ e < pages[2]
           /\ e + 1 <= Len(parsed) /\ startswith(HrefOf(heap, e + 1), "data:image/png;base64,")

(***************************************************************************)
(* Properties of extract_iwb_to_svg                                        *)
(***************************************************************************)
\* no entry of the archive has a name ending in .xml, whatever the case
XmlName(name) == Len(name) >= 4 /\ lower(From(name, Len(name) - 3)) = ".xml"

NoDocument == \A i \in 1..Len(archive) : ~XmlName(archive[i].name)

\* the page elements of the parsed document; the heap is in document order
PageElements == {e \in 1..Len(parsed) : parsed[e].tag = Svg("page")}

\* the document has been parsed and holds no page
NoPages == ~NoDocument /\ pc # "start" /\ parsed # <<>> /\ PageElements = {}

\* C9: with no .xml entry in the archive, or no page element in the document,
\* extract_iwb_to_svg ends with an error exit and the output directory holds
\* no file: no page file and, in copy_directory mode, no copied image
C9_NothingWritten ==
    /\ (Extracting /\ (NoDocument \/ NoPages))
       => /\ pc \in {"start", "find_pages", "exit1"}
          /\ DOMAIN out_files = {}
    /\ pc = "exit1" => (NoDocument \/ NoPages) /\ DOMAIN out_files = {}

\* the run has exited on a document without pages, in copy_directory mode,
\* with images in the archive
C9_Witness ==
    /\ pc = "exit1" /\ NoPages /\ opts.images_mode = "copy_directory"
    /\ \E i \in 1..Len(archive) : startswith(archive[i].name, "images/")
    /\ DOMAIN out_files = {}

\* the run has exited on an archive without a document
C9_WitnessNoDocument == pc = "exit1" /\ NoDocument /\ Len(archive) > 0

\* page_0.svg ... page_(n-1).svg
PageNames(n) == {"page_" \o NatStr(i) \o ".svg" : i \in 0..(n - 1)}

\* the svg files of the output directory
SvgFiles == {f \in DOMAIN out_files : out_files[f].kind = "svg"}

\* the i-th page element in document order, from 0
NthPage(i) == CHOOSE e \in PageElements : Cardinality({d \in PageElements : d < e}) = i

\* the steps of the loop body on the tree below root, as the arguments have them
Repaired(h, root) == fix_compressed_unexistent_images(h, root, archive)

Inlined(h, root) ==
    IF opts.images_mode = "data_uri" THEN process_images_data_uri(h, root, archive) ELSE h

Cleared(h, root) == IF opts.delete_background THEN delete_background_images(h, root) ELSE h

Unfilled(h, root) == IF opts.fix_fills THEN remove_fills(h, root) ELSE h

Sized(h, root) == IF opts.fix_size THEN fix_svg_size(h, root, DefaultMargin) ELSE h

Processed(h, root) ==
    Sized(Unfilled(convert_textarea_to_text(Cleared(Inlined(Repaired(h, root), root), root),
                                            root), root), root)

\* the file of page element e, made from the document as it was parsed
PageContent(e) ==
    Serialize(Processed(Append(parsed, SvgRootOf(parsed[e])), Len(parsed) + 1),
              Len(parsed) + 1)

\* C10, of the runs that reach their end: a run on a document of n pages
\* ends with exactly the svg files page_0.svg ... page_(n-1).svg, page_i.svg
\* holding the i-th page element in document order; while page idx is in
\* hand the files written are exactly those of the pages before it
C10_PagesInOrder ==
    /\ pc = "done"
       => /\ SvgFiles = PageNames(Cardinality(PageElements))
          /\ \A f \in DOMAIN out_files \ SvgFiles :
                 opts.images_mode = "copy_directory" /\ startswith(f, "images/")
          /\ \A i \in 0..(Cardinality(PageElements) - 1) :
                 out_files["page_" \o NatStr(i) \o ".svg"].tree = PageContent(NthPage(i))
    /\ pc \in InLoop
       => /\ SvgFiles = PageNames(idx)
          /\ idx < Len(pages)
          /\ pages[idx + 1] = NthPage(idx)

\* C10, of every run that has ended on a document with pages, whether it
\* returned or an exception ended it: the svg files are exactly
\* page_0.svg ... page_(n-1).svg, one for each page element
C10_EveryPageWritten ==
    (pc \in {"done", "crashed"} /\ PageElements # {})
    => SvgFiles = PageNames(Cardinality(PageElements))

\* a run on a document of two different pages has ended
C10_Witness ==
    /\ pc = "done" /\ Cardinality(PageElements) = 2
    /\ SvgFiles = {"page_0.svg", "page_1.svg"}
    /\ out_files["page_0.svg"] # out_files["page_1.svg"]

(***************************************************************************)
(* Properties of the source tree                                           *)
(***************************************************************************)
\* the elements of the document as it was parsed
SourceElements == 1..Len(parsed)

\* some page has been taken in hand
PageTaken == Extracting /\ pc \in InLoop \cup {"done", "crashed"} /\ last.op # "pages"

\* C11: whatever pages extract_iwb_to_svg has processed, every element of the
\* parsed document has the attributes, text, tail and children it had right
\* after parsing
C11_SourceReadOnly ==
    PageTaken => \A e \in SourceElements : heap[e] = parsed[e]

(***************************************************************************)
(* Properties of remove_fills                                              *)
(***************************************************************************)
\* remove_fills has just returned
FillsRemoved == last.op = "remove_fills"

\* the elements of the tree in hand, as it was before the last step
TreeBefore == Range(iter(before, svg_root))

\* the id of element e of heap h starts with a reserved prefix
Reserved(h, e) ==
    \E p \in {"Autoshape", "Word"} :
        Has(h[e].attrib, "id") /\ startswith(Get(h[e].attrib, "id", ""), p)

\* C12: remove_fills leaves every element whose id starts with "Autoshape" or
\* "Word" as it was: its fill, its style and all its other attributes
C12_ExemptUnchanged ==
    FillsRemoved => \A e \in TreeBefore : Reserved(before, e) => heap[e] = before[e]

\* a call on a tree that holds <rect id="Autoshape1" fill="red"/> and an
\* element with a Word id and a fill declaration in its style, both kept,
\* while some other element of the tree was rewritten
C12_Witness ==
    /\ FillsRemoved
    /\ \E e \in TreeBefore :
           /\ before[e].attrib = <<<<"id", "Autoshape1">>, <<"fill", "red">>>>
           /\ heap[e] = before[e]
    /\ \E e \in TreeBefore :
           /\ startswith(Get(before[e].attrib, "id", ""), "Word")
           /\ Get(before[e].attrib, "style", "") = "fill:blue"
           /\ heap[e] = before[e]
    /\ \E e \in TreeBefore : heap[e] # before[e]

\* the tags that bear a shape
ShapeBearing == {"path", "rect", "circle", "ellipse", "polygon", "polyline", "line", "text"}

\* the key and the value of a segment that has a colon: what stands before
\* its first colon and what stands after it, without the blanks around them
KeyOf(p) == strip(Slice(p, 1, FindFrom(p, ":", 1) - 1))

ValueOf(p) == strip(From(p, FindFrom(p, ":", 1) + 1))

\* the declarations of a style: its segments between semicolons that have a colon
Declarations(style) ==
    LET HasColon(p) == \E i \in 1..Len(p) : Char(p, i) = ":"
    IN SelectSeq(split(style, ";"), HasColon)

\* the declarations of a style as C13 has them rewritten on an element of tag local
Normalized(style, local) ==
    LET d == Declarations(style)
    IN [i \in 1..Len(d) |->
            IF KeyOf(d[i]) = "fill" THEN "fill:none" ELSE KeyOf(d[i]) \o ":" \o ValueOf(d[i])]
       \o (IF (\A i \in 1..Len(d) : KeyOf(d[i]) # "fill") /\ local \in ShapeBearing
           THEN <<"fill:none">> ELSE <<>>)

StyleOf(h, e) == Get(h[e].attrib, "style", "")

\* the non-exempt elements of the tree that had a non-empty style
Styled == {e \in TreeBefore : ~Reserved(before, e) /\ StyleOf(before, e) # ""}

\* C13: remove_fills rewrites the non-empty style of a non-exempt element to
\* its key:value declarations in their order, joined by ";", every fill
\* declaration turned to fill:none, and fill:none appended when there was no
\* fill declaration and the tag bears a shape; when no declaration results
\* the style is not written
C13_StyleRewritten ==
    FillsRemoved
    => \A e \in Styled :
           LET n == Normalized(StyleOf(before, e), LocalName(before[e].tag))
           IN IF n = <<>> THEN StyleOf(heap, e) = StyleOf(before, e)
              ELSE StyleOf(heap, e) = join(";", n)

\* a call on a tree with <rect style="fill:#fff;stroke:#000"/>, rewritten to
\* fill:none;stroke:#000, and with a shape whose style had no fill
\* declaration, which got fill:none appended
C13_Witness ==
    /\ FillsRemoved
    /\ \E e \in Styled :
           /\ LocalName(before[e].tag) = "rect"
           /\ StyleOf(before, e) = "fill:#fff;stroke:#000"
           /\ StyleOf(heap, e) = "fill:none;stroke:#000"
    /\ \E e \in Styled :
           /\ StyleOf(before, e) = "Fill:red;fill-opacity:1"
           /\ StyleOf(heap, e) = "Fill:red;fill-opacity:1;fill:none"

\* a call on a tree with a style that holds no declaration, left as it was,
\* and with a style whose blanks and empty segments were dropped
C13_WitnessDropped ==
    /\ FillsRemoved
    /\ \E e \in Styled : StyleOf(before, e) = "x" /\ StyleOf(heap, e) = "x"
    /\ \E e \in Styled :
           /\ StyleOf(before, e) = " fill : red ; ;x; stroke: #000 "
           /\ StyleOf(heap, e) = "fill:none;stroke:#000"

\* the elements of the tree in hand
TreeNow == Range(iter(heap, svg_root))

\* the values the style of element e of heap h declares for fill
FillValues(h, e) ==
    LET d == Declarations(StyleOf(h, e))
    IN {ValueOf(d[i]) : i \in {j \in 1..Len(d) : KeyOf(d[j]) = "fill"}}

\* fill is disabled on element e: by its fill attribute or by its style
FillDisabled(h, e) ==
    \/ Has(h[e].attrib, "fill") /\ Get(h[e].attrib, "fill", "") = "none"
    \/ "none" \in FillValues(h, e)

\* element e keeps no fill other than none, in its attribute or in its style
NoFillLeft(h, e) ==
    /\ Has(h[e].attrib, "fill") => Get(h[e].attrib, "fill", "") = "none"
    /\ FillValues(h, e) \subseteq {"none"}

\* C14: after remove_fills every non-exempt element that bears a shape has
\* fill disabled, by fill="none" or by fill:none in its style; no non-exempt
\* element keeps a fill attribute or a fill declaration other than none; a
\* shape that had neither fill nor style has the attribute fill="none"
C14_FillsDisabled ==
    FillsRemoved
    => \A e \in TreeNow :
           ~Reserved(before, e)
           => /\ NoFillLeft(heap, e)
              /\ LocalName(heap[e].tag) \in ShapeBearing
                 => /\ FillDisabled(heap, e)
                    /\ (~Has(before[e].attrib, "fill") /\ ~Has(before[e].attrib, "style"))
                       => /\ Has(heap[e].attrib, "fill")
                          /\ Get(heap[e].attrib, "fill", "") = "none"

\* a call on a tree with a shape that had no attribute at all and now has
\* fill="none", and with an element that bears no shape whose fill attribute
\* was overwritten
C14_Witness ==
    /\ FillsRemoved
    /\ \E e \in TreeNow :
           /\ LocalName(heap[e].tag) = "rect"
           /\ before[e].attrib = <<>>
           /\ heap[e].attrib = <<<<"fill", "none">>>>
    /\ \E e \in TreeNow :
           /\ LocalName(heap[e].tag) = "g"
           /\ Get(before[e].attrib, "fill", "") = "#000"
           /\ Get(heap[e].attrib, "fill", "") = "none"

(***************************************************************************)
(* Properties of convert_textarea_to_text                                  *)
(***************************************************************************)
\* convert_textarea_to_text has just returned
Flattened == last.op = "convert_textarea_to_text"

IsTextarea(h, e) == endswith(h[e].tag, "textarea")

IsTbreak(h, e) == endswith(h[e].tag, "tbreak")

IsTspan(h, e) == endswith(h[e].tag, "tspan")

\* the textareas of the tree as it was before the last step
TextareasBefore == {e \in TreeBefore : IsTextarea(before, e)}

\* the elements the last step made
Made == (1..Len(heap)) \ (1..Len(before))

\* d stands where c stood: it is c itself, or c was a textarea and d is the
\* text element made for it
Passed(c, d) ==
    \/ d = c
    \/ c \in TextareasBefore /\ d \in Made /\ heap[d].tag = Svg("text")

PassedAll(cs, ds) == Len(cs) = Len(ds) /\ \A i \in 1..Len(cs) : Passed(cs[i], ds[i])

\* the places among the children of textarea ta of those that are no tbreak
KeptPlaces(ta) ==
    {i \in 1..Len(before[ta].children) : ~IsTbreak(before, before[ta].children[i])}

\* the i-th place of a set of places, in increasing order
NthPlace(S, i) == CHOOSE p \in S : Cardinality({q \in S : q < p}) = i - 1

\* the child at place p of textarea ta is a tspan that follows a tbreak
BreaksLine(ta, p) ==
    /\ p > 1
    /\ IsTbreak(before, before[ta].children[p - 1])
    /\ IsTspan(before, before[ta].children[p])

\* d is the clone of tspan c with x and dy forced
ForcedClone(ta, c, d) ==
    /\ d \in Made
    /\ heap[d].tag = before[c].tag
    /\ Get(heap[d].attrib, "x", "") = Get(before[ta].attrib, "x", "0")
    /\ Get(heap[d].attrib, "dy", "") = "1.2em"
    /\ \A k \in {a[1] : a \in Range(before[c].attrib) \cup Range(heap[d].attrib)} \ {"x", "dy"} :
           /\ Has(heap[d].attrib, k) <=> Has(before[c].attrib, k)
           /\ Get(heap[d].attrib, k, "") = Get(before[c].attrib, k, "")
    /\ heap[d].text = before[c].text
    /\ heap[d].tail = before[c].tail
    /\ PassedAll(before[c].children, heap[d].children)

\* c is passed through: the same element, with what it had
Unmodified(c, d) ==
    /\ Passed(c, d)
    /\ d = c => /\ heap[c].tag = before[c].tag
                /\ heap[c].attrib = before[c].attrib
                /\ heap[c].text = before[c].text
                /\ heap[c].tail = before[c].tail

\* t is the text element of textarea ta
TextOf(ta, t) ==
    /\ heap[t].tag = Svg("text")
    /\ heap[t].attrib = before[ta].attrib
    /\ Len(heap[t].children) = Cardinality(KeptPlaces(ta))
    /\ \A j \in 1..Len(heap[t].children) :
           LET p == NthPlace(KeptPlaces(ta), j)
           IN IF BreaksLine(ta, p)
              THEN ForcedClone(ta, before[ta].children[p], heap[t].children[j])
              ELSE Unmodified(before[ta].children[p], heap[t].children[j])

\* the call ended by a ValueError
Raised == \E i \in 1..Len(stderr) : startswith(stderr[i], "ValueError")

\* the textareas that lie below a tbreak of a textarea, and leave the tree with it
BelowTbreak ==
    {ta \in TextareasBefore :
        \E outer \in TextareasBefore :
            \E b \in Range(before[outer].children) :
                IsTbreak(before, b) /\ ta \in Range(iter(before, b))}

\* every textarea has its text element, which is in the tree unless the
\* textarea lay below a tbreak
EveryTextareaFlattened ==
    \A ta \in TextareasBefore :
        \E t \in Made : TextOf(ta, t) /\ (ta \notin BelowTbreak => t \in TreeNow)

\* C15: after convert_textarea_to_text, for every textarea a text element has
\* been made with all the attributes of the textarea, whose children are the
\* textarea's children that are no tbreak, in their order: a tspan that
\* follows a tbreak as a clone with x forced to the textarea's x ("0" when it
\* has none) and dy to "1.2em", its other attributes, text, tail and
\* descendants kept, any other child passed through as it was
C15_EveryTextareaFlattened == Flattened => EveryTextareaFlattened

\* C15, of the calls that return: the same of every textarea
C15_TextareaFlattened == (Flattened /\ ~Raised) => EveryTextareaFlattened

\* the call was ended by the ValueError with a textarea left that has no
\* text element
C15_WitnessRaised ==
    /\ Flattened /\ Raised
    /\ \E ta \in TextareasBefore \cap TreeNow : \A t \in Made : ~TextOf(ta, t)

\* the textarea with x="5" and the children tspan A, tbreak, tspan B has
\* become a text element of two tspans, A as it was and B with x="5" and
\* dy="1.2em"
C15_Witness ==
    /\ Flattened
    /\ \E ta \in TextareasBefore, t \in TreeNow \cap Made :
           /\ TextOf(ta, t)
           /\ Get(before[ta].attrib, "x", "") = "5"
           /\ Len(before[ta].children) = 3
           /\ Len(heap[t].children) = 2
           /\ heap[t].children[1] = before[ta].children[1]
           /\ heap[heap[t].children[1]].attrib = <<>>
           /\ heap[heap[t].children[1]].text = "A"
           /\ heap[heap[t].children[2]].attrib = <<<<"x", "5">>, <<"dy", "1.2em">>>>
           /\ heap[heap[t].children[2]].text = "B"

\* the tspan that follows two tbreaks, with x="9" and dy="3" of its own and a
\* child, has been cloned with x="0" and dy="1.2em" and keeps its child; the
\* element before it, no tspan, follows a tbreak and is passed through
C15_WitnessForced ==
    /\ Flattened
    /\ \E ta \in TextareasBefore, t \in TreeNow \cap Made :
           /\ TextOf(ta, t)
           /\ ~Has(before[ta].attrib, "x")
           /\ Len(before[ta].children) = 5
           /\ Len(heap[t].children) = 2
           /\ heap[t].children[1] = before[ta].children[2]
           /\ heap[heap[t].children[2]].attrib = <<<<"x", "0">>, <<"dy", "1.2em">>>>
           /\ heap[heap[t].children[2]].children = before[before[ta].children[5]].children
           /\ heap[heap[t].children[2]].children # <<>>

\* the parent of element e in the tree as it was before the last step
ParentBefore(e) == FirstParent(before, iter(before, svg_root), e)

\* parent p holds, place by place, what it held, each textarea replaced by a
\* text element the last step made
ReplacedInPlace(p) ==
    /\ Len(heap[p].children) = Len(before[p].children)
    /\ \A i \in 1..Len(before[p].children) :
           IF before[p].children[i] \in TextareasBefore
           THEN /\ heap[p].children[i] \in Made
                /\ heap[heap[p].children[i]].tag = Svg("text")
           ELSE heap[p].children[i] = before[p].children[i]

\* C16: after convert_textarea_to_text no element whose tag ends in "textarea"
\* is left in the tree, and every parent of a textarea that is still in the
\* tree holds a text element at each place where it held a textarea, its
\* other children the same in number and order
C16_TextareasReplaced ==
    Flattened
    => /\ \A e \in TreeNow : ~IsTextarea(heap, e)
       /\ \A ta \in TextareasBefore :
              ParentBefore(ta) \in TreeNow => ReplacedInPlace(ParentBefore(ta))

\* C19: remove_fills applied to the tree it has left changes no attribute of
\* any element: twice is the same as once
C19_Idempotent == FillsRemoved => remove_fills(heap, svg_root) = heap

\* a call that rewrote a style and appended fill:none to another, on a tree
\* that a second call leaves as it is
C19_Witness ==
    /\ FillsRemoved
    /\ \E e \in Styled : StyleOf(heap, e) # StyleOf(before, e) /\ FillValues(before, e) # {}
    /\ \E e \in Styled : FillValues(before, e) = {} /\ FillValues(heap, e) = {"none"}
    /\ remove_fills(heap, svg_root) = heap

\* the elements that are not exempt and lie below an exempt element
BelowExempt ==
    {e \in TreeBefore :
        /\ ~Reserved(before, e)
        /\ \E a \in TreeBefore \ {e} : Reserved(before, a) /\ e \in Range(iter(before, a))}

\* C20: the exemption covers the element that carries the reserved id and not
\* what lies below it: a non-exempt element below an exempt one has its fill
\* attribute and the fill declarations of its style rewritten to none
C20_ExemptionNotInherited ==
    FillsRemoved
    => \A e \in BelowExempt :
           /\ NoFillLeft(heap, e)
           /\ Has(before[e].attrib, "fill") => Get(heap[e].attrib, "fill", "") = "none"
           /\ FillValues(before, e) # {} => FillValues(heap, e) = {"none"}

\* a line with fill="red" and style fill:green;stroke:red below a group with
\* a Word id: the group is as it was, the line has fill="none" and
\* fill:none;stroke:red
C20_Witness ==
    /\ FillsRemoved
    /\ \E e \in BelowExempt :
           /\ Get(before[e].attrib, "fill", "") = "red"
           /\ StyleOf(before, e) = "fill:green;stroke:red"
           /\ Get(heap[e].attrib, "fill", "") = "none"
           /\ StyleOf(heap, e) = "fill:none;stroke:red"
           /\ heap[ParentBefore(e)] = before[ParentBefore(e)]
           /\ Reserved(before, ParentBefore(e))

(***************************************************************************)
(* C18: the engine get_pdf_engine returns                                  *)
(***************************************************************************)
\* Inkscape is on the PATH or at one of the common paths of the platform
InkscapeAvailable ==
    \/ system.which # ""
    \/ \E i \in 1..Len(CommonPaths(system.platform)) :
           CommonPaths(system.platform)[i] \in system.paths

\* get_pdf_engine has returned
EngineChosen == pdf_pc = "combine" \/ last.op \in {"get_pdf_engine", "combine_svgs_to_pdf"}

\* C18: get_pdf_engine always returns an engine, and the Inkscape engine only
\* when Inkscape is available: svglib for use_inkscape=False; for None and for
\* True, Inkscape if it is available and svglib otherwise
C18_EngineAvailable ==
    EngineChosen
    => /\ engine \in {"InkscapeEngine", "SvglibEngine"}
       /\ engine = "InkscapeEngine" => InkscapeAvailable
       /\ use_inkscape = "False" => engine = "SvglibEngine"
       /\ use_inkscape \in {"None", "True"}
          => engine = (IF InkscapeAvailable THEN "InkscapeEngine" ELSE "SvglibEngine")

\* Inkscape was asked for, is not there, and svglib was returned with a warning
C18_Witness ==
    /\ last.op = "get_pdf_engine"
    /\ use_inkscape = "True"
    /\ ~InkscapeAvailable
    /\ engine = "SvglibEngine"
    /\ stderr # <<>>
    /\ stderr[Len(stderr)] = "Inkscape requested but not found, falling back to svglib"

\* Inkscape was found at a common path and returned without being asked for
C18_WitnessDetected ==
    /\ last.op = "get_pdf_engine"
    /\ use_inkscape = "None"
    /\ system.which = ""
    /\ engine = "InkscapeEngine"

(***************************************************************************)
(* C17: the temporary directory of extract_iwb_to_pdf                      *)
(***************************************************************************)
\* extract_iwb_to_pdf is the function called
PdfCall == pdf_pc # ""

\* extract_iwb_to_svg is at work in the temporary directory
PdfExtracting == PdfCall /\ pc \in {"start", "find_pages", "done"} \cup InLoop

\* the call of extract_iwb_to_pdf has ended: it returned, the program exited,
\* or an exception left it
PdfEnded == PdfCall /\ (pc \in {"exit1", "crashed"} \/ pdf_pc \in {"done", "exit1", "raised"})

\* C17: the temporary directory of extract_iwb_to_pdf exists before the pages
\* are processed and as long as they are, and is removed when the call has
\* ended, whether it returned, exited in the extraction, raised in the
\* processing of a page, or failed in the PDF engine
C17_TempDirRemoved ==
    /\ PdfExtracting /\ ~PdfEnded => temp_dir = "exists"
    /\ PdfEnded => temp_dir = "removed"
    /\ PdfCall /\ temp_dir = "removed" => PdfEnded

\* a page raised in convert_textarea_to_text, after the file of the page
\* before it was written to the directory, and the directory is removed
C17_Witness ==
    /\ PdfCall
    /\ pc = "crashed"
    /\ pdf_pc = "raised"
    /\ DOMAIN out_files # {}
    /\ temp_dir = "removed"

\* the Inkscape engine exited and the directory is removed
C17_WitnessEngineExit ==
    /\ pc = "done"
    /\ engine = "InkscapeEngine"
    /\ pdf_pc = "exit1"
    /\ temp_dir = "removed"

\* the extraction exited on a document without pages and the directory is removed
C17_WitnessNoPages ==
    /\ PdfCall
    /\ pc = "exit1"
    /\ last.op = "pages"
    /\ temp_dir = "removed"

\* the extraction exited on an archive without a document
C17_WitnessNoDocument ==
    /\ PdfCall
    /\ pc = "exit1"
    /\ last.op = "open"
    /\ temp_dir = "removed"

\* the call returned and the directory is removed
C17_WitnessReturned ==
    /\ pdf_pc = "done"
    /\ temp_dir = "removed"

\* the directory exists while a page is processed
C17_WitnessProcessing ==
    /\ PdfCall
    /\ pc \in InLoop
    /\ temp_dir = "exists"

====
